---- MODULE Spec2Model ----
(***************************************************************************)
(* lexo: word, line and character counting, word-frequency analysis,       *)
(* language detection and line-of-code counting (src/main.go).             *)
(*                                                                         *)
(* Text is a string; a character of the model is one byte of the input.    *)
(***************************************************************************)
EXTENDS Integers, Sequences, FiniteSets, TLC

(***************************************************************************)
(* Bounds of the model.                                                    *)
(***************************************************************************)
\* largest number of tokens of a free-form input text
MaxTokens == 3
\* largest limit argument tried (the smallest is -1)
MaxLimit == 1
\* largest number of elements of which every arrangement is enumerated
MaxPerm == 2
\* largest number of command-line arguments
MaxArgs == 3
\* maxWords of detectLanguage, 1000 in the source, scaled to the texts of the model
maxWords == 2
\* startBufSize of bufio.Scanner, 4096 in the library, scaled likewise
startBufSize == 4
\* bufio.MaxScanTokenSize, 64 * 1024 in the library, scaled likewise
MaxScanTokenSize == 8
\* largest number of characters of an input of the counting functions
MaxUnits == 3

(***************************************************************************)
(* Characters and strings.                                                 *)
(***************************************************************************)
\* byte value of the characters the model uses (Go compares strings bytewise)
Ord(c) ==
  CASE c = "\t" -> 9  [] c = "\n" -> 10 [] c = "\f" -> 12 [] c = "\r" -> 13
    [] c = " " -> 32  [] c = "!" -> 33  [] c = "\"" -> 34 [] c = "'" -> 39
    [] c = "(" -> 40  [] c = ")" -> 41  [] c = "," -> 44  [] c = "-" -> 45
    [] c = "." -> 46  [] c = "0" -> 48  [] c = "1" -> 49  [] c = "2" -> 50
    [] c = "3" -> 51  [] c = "5" -> 53  [] c = ":" -> 58  [] c = ";" -> 59
    [] c = "?" -> 63  [] c = "A" -> 65  [] c = "B" -> 66  [] c = "C" -> 67
    [] c = "[" -> 91
    [] c = "]" -> 93  [] c = "a" -> 97  [] c = "b" -> 98  [] c = "c" -> 99
    [] c = "d" -> 100 [] c = "e" -> 101 [] c = "f" -> 102 [] c = "g" -> 103
    [] c = "h" -> 104 [] c = "i" -> 105 [] c = "j" -> 106 [] c = "k" -> 107
    [] c = "l" -> 108 [] c = "m" -> 109 [] c = "{" -> 123 [] c = "}" -> 125

\* s[i] of a Go string
At(s, i) == SubSeq(s, i, i)

\* Go's s < t on strings: bytewise lexicographic
RECURSIVE StrLess(_, _)
StrLess(s, t) ==
  IF t = "" THEN FALSE
  ELSE IF s = "" THEN TRUE
  ELSE IF At(s, 1) = At(t, 1) THEN StrLess(Tail(s), Tail(t))
  ELSE Ord(At(s, 1)) < Ord(At(t, 1))

\* strings.ToLower on one character
LowerChar(c) ==
  CASE c = "A" -> "a" [] c = "B" -> "b" [] c = "C" -> "c" [] OTHER -> c

\* strings.ToLower
RECURSIVE ToLower(_)
ToLower(s) ==
  IF s = "" THEN "" ELSE LowerChar(At(s, 1)) \o ToLower(Tail(s))

\* the cutset of the strings.Trim call of analyzeWordFrequency
Cutset == {".", ",", ";", ":", "!", "?", "\"", "'", "(", ")", "[", "]", "{", "}"}

\* strings.TrimLeft(s, cutset)
RECURSIVE TrimLeft(_)
TrimLeft(s) ==
  IF s # "" /\ At(s, 1) \in Cutset THEN TrimLeft(Tail(s)) ELSE s

\* strings.TrimRight(s, cutset)
RECURSIVE TrimRight(_)
TrimRight(s) ==
  IF s # "" /\ At(s, Len(s)) \in Cutset
  THEN TrimRight(SubSeq(s, 1, Len(s) - 1)) ELSE s

\* strings.Trim(s, cutset)
Trim(s) == TrimRight(TrimLeft(s))

\* a normalisation that forgets to lower-case
NormalizeNoLower(word) == Trim(word)

\* the normalisation of one token in analyzeWordFrequency
Normalize(word) == Trim(ToLower(word))

\* bufio's isSpace on the characters of the model
isSpace(c) == c \in {" ", "\t", "\n", "\r", "\f"}

\* bufio.ScanWords: number of leading space characters of data from position i
RECURSIVE SkipSpaces(_, _)
SkipSpaces(data, i) ==
  IF i <= Len(data) /\ isSpace(At(data, i)) THEN SkipSpaces(data, i + 1) ELSE i

\* bufio.ScanWords: the position after the word that starts at i
RECURSIVE WordEnd(_, _)
WordEnd(data, i) ==
  IF i <= Len(data) /\ ~isSpace(At(data, i)) THEN WordEnd(data, i + 1) ELSE i

\* bufio.ScanWords over text: the words from position i on, in order
RECURSIVE WordsFrom(_, _)
WordsFrom(data, i) ==
  LET b == SkipSpaces(data, i)
      e == WordEnd(data, b)
  IN IF b > Len(data) THEN <<>>
     ELSE <<SubSeq(data, b, e - 1)>> \o WordsFrom(data, e)

(***************************************************************************)
(* State.                                                                  *)
(*   args .. totals : the process: os.Args, the Config, standard input,    *)
(*   the lines written to cfg.Output, the error Run returns, the position  *)
(*   in main and in the loops of Run.                                      *)
(*   src .. lpc : one call of processReaderForLanguage.                    *)
(*   text .. firstReport : one call of analyzeWordFrequency (and a second  *)
(*   call on a reordering of the same tokens).                             *)
(*   input .. cpc : the counting functions called by themselves.           *)
(*   pf : processFile called by itself.                                    *)
(***************************************************************************)
VARIABLES
  args,         \* os.Args[1:]
  cfg,          \* *Config
  stdin,        \* the bytes of standard input
  out,          \* the lines written to cfg.Output
  err,          \* the error returned by Run
  pc,           \* position in main
  pathIdx,      \* index into cfg.Paths of the loops of Run
  totals,       \* totalLines, totalWords, totalChars of Run
  src,          \* the bytes of the reader Run reads: cfg.Input or the file
  rpos,         \* number of bytes of src read so far
  buf,          \* bytes.Buffer of processReaderForLanguage, filled by its tee
  dbuf,         \* bytes.Buffer of detectLanguage, filled by its tee
  sc,           \* the bufio.Scanner of detectLanguage
  sample,       \* strings.Builder of detectLanguage
  wordCount,    \* wordCount of detectLanguage
  lang,         \* the result of detectLanguage
  info,         \* the call of whatlanggo.Detect: its argument and its result
  lpc,          \* position in processReaderForLanguage
  text,         \* the bytes the reader r delivers
  sortByCount,  \* parameter sortByCount
  limitArg,     \* parameter limit as passed by the caller
  limit,        \* local limit after the default substitution
  scanPos,      \* scanner: position of the first unread byte of text
  wordCounts,   \* map[string]int
  frequencies,  \* []WordFrequency
  fpc,          \* position in analyzeWordFrequency
  round,        \* 1: first call, 2: call on the reordered text
  firstText,    \* text of the first call
  firstReport,  \* report of the first call
  input,        \* the bytes of the reader given to the counting functions
  counted,      \* what countLines, countWords and countChars returned
  cpc,          \* the counting functions called so far
  pf            \* one call of processFile: extension, lines, position of the
                \* scanner, stats, isMultilineComment (and both before the
                \* last line)

freqVars == <<text, sortByCount, limitArg, limit, scanPos, wordCounts,
              frequencies, fpc, round, firstText, firstReport>>

progVars == <<args, cfg, stdin, out, err, pc, pathIdx, totals>>

langVars == <<src, rpos, buf, dbuf, sc, sample, wordCount, lang, info, lpc>>

countVars == <<input, counted, cpc>>

fileVars == <<pf>>

vars == <<progVars, langVars, freqVars, countVars, fileVars>>

(***************************************************************************)
(* Inputs.                                                                 *)
(***************************************************************************)
\* the tokens of the free-form texts: plain, upper case, punctuation on both
\* sides, punctuation only, punctuation inside
Vocabulary == {"a", "A", "(b.", ".", "a.b"}

\* the texts of at most n tokens of Vocabulary, separated by one space
RECURSIVE TokenTexts(_)
TokenTexts(n) ==
  IF n = 0 THEN {""}
  ELSE LET S == TokenTexts(n - 1)
       IN S \cup {IF s = "" THEN w ELSE s \o " " \o w : s \in S, w \in Vocabulary}

\* thirteen tokens with eleven distinct normal forms, one more than the
\* default limit: "c" comes twice, one token is punctuation only
LongText == " C d e f  g h\ni j k l m c. .\n"

Texts == TokenTexts(MaxTokens) \cup {LongText}

Limits == -1 .. MaxLimit

\* the command-line arguments tried: flags, a number, a word, two files, a
\* directory
ArgVocabulary ==
  {"--loc", "-l", "--chars", "-w", "--lang", "--lang-name", "--freq",
   "--sort-count", "--limit", "1", "abc", "f1", "f2", "."}

\* the arguments of the longest lists: the modes, a count, the limit, the
\* paths
CoreVocabulary == {"--loc", "--lang", "--freq", "-w", "--limit", "f1", "f2", "."}

\* the lists of n arguments of V, no argument twice
ListsOf(V, n) ==
  {a \in [1 .. n -> V] : \A i, j \in 1 .. n : a[i] = a[j] => i = j}

\* the argument lists tried: the shorter ones of all arguments, the longest
\* ones of the core, and two that ask for help
\* two of the three counting flags, followed by a file, by two files or by
\* the language detection
CountPairLists ==
  {p \o t : p \in {<<"-l", "--chars">>, <<"-l", "-w">>, <<"--chars", "-w">>,
                   <<"-w", "-l">>},
            t \in {<<"f1">>, <<"f2", "f1">>, <<"--lang">>}}

ArgLists ==
  UNION {ListsOf(ArgVocabulary, n) : n \in 0 .. MaxArgs - 1}
  \cup ListsOf(CoreVocabulary, MaxArgs)
  \cup CountPairLists
  \cup {<<"-h">>, <<"-w", "--help">>}

\* n times the character c
RECURSIVE Repeat(_, _)
Repeat(c, n) == IF n = 0 THEN "" ELSE c \o Repeat(c, n - 1)

\* three lines and three words, the second word as long as the largest
\* buffer of a scanner
LongStdin == "a\n" \o Repeat("m", MaxScanTokenSize) \o " b\n"

\* the contents of standard input tried
Stdins == {"", " \n", "a\nb \n", "a b c\nd e f\ng h\n", LongStdin}

\* arrangements of 1..n: all of them up to MaxPerm elements, the rotations of
\* the identity and of its reverse beyond
Arrangements(n) ==
  IF n <= MaxPerm
  THEN {p \in [1 .. n -> 1 .. n] : \A i, j \in 1 .. n : p[i] = p[j] => i = j}
  ELSE {[i \in 1 .. n |-> ((i + k - 1) % n) + 1] : k \in 0 .. n - 1}
       \cup {[i \in 1 .. n |-> n - ((i + k - 1) % n)] : k \in 0 .. n - 1}

\* the default limit substituted for limit <= 0
DefaultLimit == 10

(***************************************************************************)
(* bufio.Scanner over the bytes of a reader, and countWords, countLines,   *)
(* countChars. A reader is the sequence of the bytes it delivers.          *)
(***************************************************************************)
\* the bytes of a text of the model
BytesOf(s) == [i \in 1 .. Len(s) |-> Ord(At(s, i))]

\* utf8.RuneError
RuneError == 65533

\* a continuation byte of UTF-8
IsContinuation(b) == b >= 128 /\ b <= 191

\* the length of the encoding a first byte announces, 1 for a byte that
\* starts no encoding
RuneSize(b) ==
  IF b < 128 THEN 1
  ELSE IF b >= 194 /\ b <= 223 THEN 2
  ELSE IF b >= 224 /\ b <= 239 THEN 3
  ELSE IF b >= 240 /\ b <= 244 THEN 4
  ELSE 1

\* the second byte b2 is accepted after the first byte b1
AcceptsSecond(b1, b2) ==
  IF b1 = 224 THEN b2 >= 160 /\ b2 <= 191
  ELSE IF b1 = 237 THEN b2 >= 128 /\ b2 <= 159
  ELSE IF b1 = 240 THEN b2 >= 144 /\ b2 <= 191
  ELSE IF b1 = 244 THEN b2 >= 128 /\ b2 <= 143
  ELSE IsContinuation(b2)

\* utf8.DecodeRune(data[i:]): the code point and the width of its encoding;
\* an invalid or incomplete encoding is RuneError of width 1
DecodeRune(data, i) ==
  LET n == Len(data) - i + 1
      b1 == data[i]
      size == RuneSize(b1)
      bad == [rune |-> RuneError, width |-> 1]
  IN IF b1 < 128 THEN [rune |-> b1, width |-> 1]
     ELSE IF b1 < 194 \/ b1 > 244 \/ n < size THEN bad
     ELSE IF ~AcceptsSecond(b1, data[i + 1]) THEN bad
     ELSE IF size = 2
     THEN [rune |-> (b1 - 192) * 64 + (data[i + 1] - 128), width |-> 2]
     ELSE IF ~IsContinuation(data[i + 2]) THEN bad
     ELSE IF size = 3
     THEN [rune |-> (b1 - 224) * 4096 + (data[i + 1] - 128) * 64
                    + (data[i + 2] - 128),
           width |-> 3]
     ELSE IF ~IsContinuation(data[i + 3]) THEN bad
     ELSE [rune |-> (b1 - 240) * 262144 + (data[i + 1] - 128) * 4096
                    + (data[i + 2] - 128) * 64 + (data[i + 3] - 128),
           width |-> 4]

\* utf8.FullRune(data): data begins with a whole encoding, valid or not
FullRune(data) ==
  LET n == Len(data)
  IN IF n = 0 THEN FALSE
     ELSE IF n >= RuneSize(data[1]) THEN TRUE
     ELSE IF n > 1 /\ ~AcceptsSecond(data[1], data[2]) THEN TRUE
     ELSE IF n > 2 /\ ~IsContinuation(data[3]) THEN TRUE
     ELSE FALSE

\* bufio's isSpace on a code point
isSpaceRune(r) ==
  \/ r \in {32, 9, 10, 11, 12, 13, 133, 160}
  \/ r \in {5760, 8232, 8233, 8239, 8287, 12288}
  \/ r >= 8192 /\ r <= 8202

\* bufio.ScanWords, first loop: the position of the first code point from i
\* on that is no space (the singleton sets here and below bind evaluated
\* values, they have no other meaning)
RECURSIVE SkipSpaceRunes(_, _)
SkipSpaceRunes(data, i) ==
  IF i > Len(data) THEN i
  ELSE IF ~isSpaceRune(DecodeRune(data, i).rune) THEN i
  ELSE CHOOSE v \in {SkipSpaceRunes(data, j) :
                       j \in {i + DecodeRune(data, i).width}} : TRUE

\* bufio.ScanWords, second loop: the position after the first space from i
\* on, 0 when there is none
RECURSIVE AfterSpaceRune(_, _)
AfterSpaceRune(data, i) ==
  IF i > Len(data) THEN 0
  ELSE IF isSpaceRune(DecodeRune(data, i).rune)
  THEN i + DecodeRune(data, i).width - 1
  ELSE CHOOSE v \in {AfterSpaceRune(data, j) :
                       j \in {i + DecodeRune(data, i).width}} : TRUE

\* bufio.ScanWords on the bytes data of the scanner's buffer
ByteScanWords(data, atEOF) ==
  CHOOSE v \in
    {IF after > 0 THEN [advance |-> after, has |-> TRUE]
     ELSE IF atEOF /\ Len(data) > start
     THEN [advance |-> Len(data), has |-> TRUE]
     ELSE [advance |-> start, has |-> FALSE] :
       start \in {SkipSpaceRunes(data, 1) - 1},
       after \in {AfterSpaceRune(data, SkipSpaceRunes(data, 1))}} : TRUE

\* bufio.ScanLines on the bytes data of the scanner's buffer
ByteScanLines(data, atEOF) ==
  LET nl == {k \in 1 .. Len(data) : data[k] = 10}
  IN IF atEOF /\ Len(data) = 0 THEN [advance |-> 0, has |-> FALSE]
     ELSE IF nl # {}
     THEN [advance |-> CHOOSE k \in nl : \A j \in nl : k <= j, has |-> TRUE]
     ELSE IF atEOF THEN [advance |-> Len(data), has |-> TRUE]
     ELSE [advance |-> 0, has |-> FALSE]

\* a ScanRunes that delivers one token for every byte
ByteScanRunesBytewise(data, atEOF) ==
  IF Len(data) = 0 THEN [advance |-> 0, has |-> FALSE]
  ELSE [advance |-> 1, has |-> TRUE]

\* bufio.ScanRunes on the bytes data of the scanner's buffer
ByteScanRunes(data, atEOF) ==
  IF Len(data) = 0 THEN [advance |-> 0, has |-> FALSE]
  ELSE IF data[1] < 128 THEN [advance |-> 1, has |-> TRUE]
  ELSE IF DecodeRune(data, 1).width > 1
  THEN [advance |-> DecodeRune(data, 1).width, has |-> TRUE]
  ELSE IF ~atEOF /\ ~FullRune(data) THEN [advance |-> 0, has |-> FALSE]
  ELSE [advance |-> 1, has |-> TRUE]

\* the split function a scanner was given
SplitFunc(split, data, atEOF) ==
  CASE split = "ScanWords" -> ByteScanWords(data, atEOF)
    [] split = "ScanLines" -> ByteScanLines(data, atEOF)
    [] split = "ScanRunes" -> ByteScanRunes(data, atEOF)

\* bufio.NewScanner(r): data holds buf[start:end], cap is len(buf), rpos the
\* number of bytes read from r
NewByteScanner(r) ==
  [data |-> SubSeq(r, 1, 0), start |-> 0, end |-> 0, cap |-> 0, err |-> "",
   rpos |-> 0]

\* Scan after the split function returned res on the buffer of s: a token is
\* delivered; or Scan stops at the end of the input; or it makes room
\* (shifts, doubles the buffer up to MaxScanTokenSize, fails when that is
\* full) and reads from r
AfterSplit(r, s, res) ==
  LET s1 == [s EXCEPT !.data = SubSeq(s.data, res.advance + 1, Len(s.data)),
                      !.start = s.start + res.advance]
      shift == s1.start > 0 /\ (s1.end = s1.cap \/ s1.start > s1.cap \div 2)
      s2 == IF shift THEN [s1 EXCEPT !.end = s1.end - s1.start, !.start = 0]
            ELSE s1
      full == s2.end = s2.cap
      newSize == IF s2.cap * 2 = 0 THEN startBufSize ELSE s2.cap * 2
      s3 == IF full
            THEN [s2 EXCEPT !.cap = IF newSize < MaxScanTokenSize THEN newSize
                                    ELSE MaxScanTokenSize,
                            !.end = s2.end - s2.start, !.start = 0]
            ELSE s2
      room == s3.cap - s3.end
      left == Len(r) - s3.rpos
      k == IF room < left THEN room ELSE left
  IN IF res.has THEN [tag |-> "token", s |-> s1]
     ELSE IF s1.err # "" THEN [tag |-> "done", s |-> s1]
     ELSE IF full /\ s2.cap >= MaxScanTokenSize
     THEN [tag |-> "done", s |-> [s2 EXCEPT !.err = "bufio.Scanner: token too long"]]
     ELSE IF left = 0 THEN [tag |-> "more", s |-> [s3 EXCEPT !.err = "EOF"]]
     ELSE [tag |-> "more",
           s |-> [s3 EXCEPT !.data = s3.data \o SubSeq(r, s3.rpos + 1, s3.rpos + k),
                            !.end = s3.end + k, !.rpos = s3.rpos + k]]

\* one round of the loop of Scan: the split function is called if the buffer
\* holds bytes or the input has ended
ScanStep(split, r, s) ==
  CHOOSE v \in
    {AfterSplit(r, s, res) :
       res \in {IF s.end > s.start \/ s.err # ""
                THEN SplitFunc(split, s.data, s.err # "")
                ELSE [advance |-> 0, has |-> FALSE]}} : TRUE

\* for scanner.Scan() { count++ } over the reader r, from the scanner state s
\* and the count n on: the count when Scan returns false, and scanner.Err()
RECURSIVE ScanLoop(_, _, _, _)
ScanLoop(split, r, s, n) ==
  CHOOSE v \in
    {IF st.tag = "done"
     THEN [count |-> m, err |-> IF st.s.err = "EOF" THEN "" ELSE st.s.err]
     ELSE ScanLoop(split, r, st.s, IF st.tag = "token" THEN m + 1 ELSE m) :
       st \in {ScanStep(split, r, s)}, m \in {n}} : TRUE

\* countWords: the scanner's error is not looked at
countWords(r) == ScanLoop("ScanWords", r, NewByteScanner(r), 0).count

\* countLines
countLines(r) == ScanLoop("ScanLines", r, NewByteScanner(r), 0).count

\* countChars
countChars(r) == ScanLoop("ScanRunes", r, NewByteScanner(r), 0).count

(***************************************************************************)
(* Config and ParseFlags                                                   *)
(***************************************************************************)
\* FrequencyLimit of NewDefaultConfig
DefaultFrequencyLimit == 10

\* NewDefaultConfig
NewDefaultConfig ==
  [LOC |-> FALSE, Line |-> FALSE, Char |-> FALSE, Word |-> FALSE,
   DetectLanguage |-> FALSE, ShowLanguageName |-> FALSE,
   FrequencyAnalysis |-> FALSE, FrequencyLimit |-> DefaultFrequencyLimit,
   SortByCount |-> FALSE, Paths |-> <<>>]

\* strings.HasPrefix
HasPrefix(s, prefix) ==
  Len(s) >= Len(prefix) /\ SubSeq(s, 1, Len(prefix)) = prefix

Digits == {"0", "1", "2", "3", "5"}

DigitValue(c) == Ord(c) - 48

\* the length of the run of digits of s that starts at position i
RECURSIVE DigitRun(_, _)
DigitRun(s, i) ==
  IF i <= Len(s) /\ At(s, i) \in Digits THEN 1 + DigitRun(s, i + 1) ELSE 0

\* the value of the decimal digits s
RECURSIVE DecimalValue(_)
DecimalValue(s) ==
  IF s = "" THEN 0
  ELSE 10 * DecimalValue(SubSeq(s, 1, Len(s) - 1)) + DigitValue(At(s, Len(s)))

\* fmt.Sscanf(s, "%d", &limit): an optional sign and at least one digit are
\* read, what follows the digits is left unread; ok is n == 1 && err == nil
Sscanf(s) ==
  LET signed == s # "" /\ At(s, 1) \in {"-", "+"}
      first == IF signed THEN 2 ELSE 1
      n == DigitRun(s, first)
      v == DecimalValue(SubSeq(s, first, first + n - 1))
  IN IF n = 0 THEN [ok |-> FALSE, val |-> 0]
     ELSE [ok |-> TRUE, val |-> IF signed /\ At(s, 1) = "-" THEN 0 - v ELSE v]

\* the local variables of ParseFlags before the loop over the arguments
NoFlags ==
  [loc |-> FALSE, l |-> FALSE, c |-> FALSE, w |-> FALSE, lang |-> FALSE,
   langName |-> FALSE, freq |-> FALSE, sortByCount |-> FALSE, limit |-> 0,
   paths |-> <<>>]

\* a ParseFlags that collects a path only while no flag has been seen
AppendPathBeforeFlags(f, arg) ==
  IF f.loc \/ f.l \/ f.c \/ f.w \/ f.lang \/ f.freq \/ f.sortByCount
  THEN f
  ELSE [f EXCEPT !.paths = Append(@, arg)]

\* paths = append(paths, arg)
AppendPath(f, arg) == [f EXCEPT !.paths = Append(@, arg)]

\* the loop of ParseFlags over os.Args[1:] from index i on (1-based)
RECURSIVE ParseArgs(_, _, _)
ParseArgs(a, i, f) ==
  IF i > Len(a) THEN f
  ELSE LET arg == a[i] IN
    CASE arg = "--loc" -> ParseArgs(a, i + 1, [f EXCEPT !.loc = TRUE])
      [] arg \in {"-l", "--lines"} -> ParseArgs(a, i + 1, [f EXCEPT !.l = TRUE])
      [] arg \in {"-c", "--chars"} -> ParseArgs(a, i + 1, [f EXCEPT !.c = TRUE])
      [] arg \in {"-w", "--words"} -> ParseArgs(a, i + 1, [f EXCEPT !.w = TRUE])
      [] arg = "--lang" -> ParseArgs(a, i + 1, [f EXCEPT !.lang = TRUE])
      [] arg = "--lang-name" ->
           ParseArgs(a, i + 1, [f EXCEPT !.lang = TRUE, !.langName = TRUE])
      [] arg = "--freq" -> ParseArgs(a, i + 1, [f EXCEPT !.freq = TRUE])
      [] arg = "--sort-count" ->
           ParseArgs(a, i + 1, [f EXCEPT !.sortByCount = TRUE])
      [] arg = "--limit" ->
           IF i + 1 <= Len(a) /\ Sscanf(a[i + 1]).ok
           THEN ParseArgs(a, i + 2, [f EXCEPT !.limit = Sscanf(a[i + 1]).val])
           ELSE ParseArgs(a, i + 1, f)
      [] OTHER ->
           IF ~HasPrefix(arg, "-")
           THEN ParseArgs(a, i + 1, AppendPath(f, arg))
           ELSE ParseArgs(a, i + 1, f)

\* a ParseFlags that defaults the paths of the language detection as well
SetPathsLanguageDefault(f, c) ==
  IF Len(f.paths) > 0 THEN f.paths
  ELSE IF f.loc \/ f.lang THEN <<".">> ELSE c.Paths

\* the end of ParseFlags: the collected paths replace cfg.Paths; without any,
\* "--loc" defaults to the current directory and nothing else is set
SetPaths(f, c) ==
  IF Len(f.paths) > 0 THEN f.paths
  ELSE IF f.loc THEN <<".">> ELSE c.Paths

\* the Config that ParseFlags leaves for the arguments a, from the Config c
ParsedConfig(c, a) ==
  LET f == ParseArgs(a, 1, NoFlags)
      default == ~f.w /\ ~f.l /\ ~f.c /\ ~f.loc /\ ~f.lang /\ ~f.freq
  IN [LOC |-> f.loc,
      Line |-> IF default THEN TRUE ELSE f.l,
      Char |-> IF default THEN TRUE ELSE f.c,
      Word |-> IF default THEN TRUE ELSE f.w,
      DetectLanguage |-> f.lang,
      ShowLanguageName |-> f.langName,
      FrequencyAnalysis |-> f.freq,
      FrequencyLimit |-> IF f.limit > 0 THEN f.limit ELSE c.FrequencyLimit,
      SortByCount |-> f.sortByCount,
      Paths |-> SetPaths(f, c)]

\* ParseFlags exits with the usage text when an argument asks for help
WantsHelp(a) == \E i \in 1 .. Len(a) : a[i] \in {"-h", "--help"}

(***************************************************************************)
(* The files of the model and countLinesOfCode                             *)
(***************************************************************************)
\* os.Stat / os.Open: what a path names
FileKind(path) ==
  CASE path \in {"f1", "f2", "./f1", "./f2", "./m.go", "./bin/x.go"} -> "file"
    [] path \in {".", "./.git", "./bin"} -> "dir"
    [] OTHER -> "missing"

\* the bytes of a file
FileBytes(path) ==
  CASE path \in {"f1", "./f1"} -> "a b\nc"
    [] path \in {"f2", "./f2"} -> "d e. f\n. h i d\n"
    [] path = "./m.go" -> "/* a\nb */\n// c\n\n d\n/* e */ f\n"
    [] path = "./bin/x.go" -> "g\n"
    [] OTHER -> ""

\* the error of a Read on an opened directory
ReadError == "read: is a directory"

\* the file opened for the current path of the loops of Run over cfg.Paths
\* is a directory: it opens, and every Read of it fails
ReadFails ==
  /\ pc = "run"
  /\ pathIdx >= 1 /\ pathIdx <= Len(cfg.Paths)
  /\ FileKind(cfg.Paths[pathIdx]) = "dir"

\* os.ReadDir: the names in a directory, sorted
DirEntries(path) ==
  CASE path = "." -> <<".git", "bin", "f1", "f2", "m.go">>
    [] path = "./bin" -> <<"x.go">>
    [] OTHER -> <<>>

\* skipDirs of countLinesOfCode
skipDirs ==
  {".git", ".hg", ".svn", "node_modules", ".idea", ".vscode", "target",
   "build", "dist", "bin", "obj"}

\* codeExtensions of countLinesOfCode
codeExtensions ==
  {".go", ".java", ".js", ".ts", ".jsx", ".tsx", ".py", ".c", ".cpp", ".h",
   ".hpp", ".cs", ".rb", ".php", ".scala", ".rs", ".swift", ".sh", ".bat",
   ".ps1", ".html", ".css", ".scss", ".sql", ".kt", ".kts", ".ex", ".exs",
   ".md"}

\* strings.ToLower(s[strings.LastIndexByte(s, '.')+1:])
ExtensionOf(s) ==
  LET dots == {k \in 1 .. Len(s) : At(s, k) = "."}
      last == IF dots = {} THEN 0 ELSE CHOOSE k \in dots : \A j \in dots : j <= k
  IN ToLower(SubSeq(s, last + 1, Len(s)))

\* bufio.ScanLines: the lines of data from position i on, without the newline
\* and without a carriage return before it
RECURSIVE SplitLines(_, _)
SplitLines(data, i) ==
  IF i > Len(data) THEN <<>>
  ELSE LET nl == {k \in i .. Len(data) : At(data, k) = "\n"}
           e == IF nl = {} THEN Len(data) + 1 ELSE CHOOSE k \in nl : \A j \in nl : k <= j
           line == SubSeq(data, i, e - 1)
           dropCR == IF line # "" /\ At(line, Len(line)) = "\r"
                     THEN SubSeq(line, 1, Len(line) - 1) ELSE line
       IN <<dropCR>> \o SplitLines(data, e + 1)

\* strings.TrimSpace
RECURSIVE TrimSpace(_)
TrimSpace(s) ==
  IF s # "" /\ isSpace(At(s, 1)) THEN TrimSpace(Tail(s))
  ELSE IF s # "" /\ isSpace(At(s, Len(s))) THEN TrimSpace(SubSeq(s, 1, Len(s) - 1))
  ELSE s

\* strings.Contains
Contains(s, sub) ==
  \E k \in 1 .. Len(s) - Len(sub) + 1 : SubSeq(s, k, k + Len(sub) - 1) = sub

\* CodeStats{}
NoStats == [Total |-> 0, Code |-> 0, Comments |-> 0, Blank |-> 0, Files |-> 0]

\* a test for the end of a comment that never finds it
closesNever(line) == FALSE

\* strings.Contains(line, "*/"): the line ends a multi-line comment
closes(line) == Contains(line, "*/")

\* one iteration of the loop of processFile: the statistics and the
\* isMultilineComment flag after the line
ClassifyLine(st, ext, line) ==
  LET trimmedLine == TrimSpace(line)
      total == [st.stats EXCEPT !.Total = @ + 1]
      blank == [stats |-> [total EXCEPT !.Blank = @ + 1], multi |-> st.multi]
      comment(m) == [stats |-> [total EXCEPT !.Comments = @ + 1], multi |-> m]
      code == [stats |-> [total EXCEPT !.Code = @ + 1], multi |-> st.multi]
  IN IF trimmedLine = "" THEN blank
     ELSE IF ext \in {"go", "c", "cpp", "java", "js", "ts", "cs", "swift", "kt"}
     THEN IF st.multi THEN comment(~closes(line))
          ELSE IF HasPrefix(trimmedLine, "//") THEN comment(FALSE)
          ELSE IF HasPrefix(trimmedLine, "/*") THEN comment(~closes(line))
          ELSE code
     ELSE IF ext \in {"py", "rb", "sh", "bash"}
     THEN IF HasPrefix(trimmedLine, "#") THEN comment(st.multi) ELSE code
     ELSE code

\* the loop of processFile over the lines
RECURSIVE ClassifyLines(_, _, _)
ClassifyLines(st, ext, lines) ==
  IF lines = <<>> THEN st
  ELSE ClassifyLines(ClassifyLine(st, ext, Head(lines)), ext, Tail(lines))

\* processFile of a file that opens
processFile(filePath) ==
  ClassifyLines([stats |-> NoStats, multi |-> FALSE], ExtensionOf(filePath),
                SplitLines(FileBytes(filePath), 1)).stats

\* stats.Total += fileStats.Total ... stats.Files++
AddStats(stats, fileStats) ==
  [Total |-> stats.Total + fileStats.Total,
   Code |-> stats.Code + fileStats.Code,
   Comments |-> stats.Comments + fileStats.Comments,
   Blank |-> stats.Blank + fileStats.Blank,
   Files |-> stats.Files + 1]

\* processDirectory: the loop over the entries from index i on
RECURSIVE processDirectory(_, _, _)
processDirectory(dirPath, i, stats) ==
  LET entries == DirEntries(dirPath) IN
  IF i > Len(entries) THEN stats
  ELSE LET entryName == entries[i]
           entryPath == dirPath \o "/" \o entryName
       IN IF HasPrefix(entryName, ".") THEN processDirectory(dirPath, i + 1, stats)
          ELSE IF FileKind(entryPath) = "dir"
          THEN IF entryName \in skipDirs THEN processDirectory(dirPath, i + 1, stats)
               ELSE processDirectory(dirPath, i + 1,
                                     processDirectory(entryPath, 1, stats))
          ELSE IF ("." \o ExtensionOf(entryName)) \notin codeExtensions
          THEN processDirectory(dirPath, i + 1, stats)
          ELSE processDirectory(dirPath, i + 1,
                                AddStats(stats, processFile(entryPath)))

\* the loop of countLinesOfCode over the paths from index i on: the
\* statistics, or the path whose os.Stat fails
RECURSIVE CountPaths(_, _, _)
CountPaths(paths, i, stats) ==
  IF i > Len(paths) THEN [failed |-> "", stats |-> stats]
  ELSE LET path == paths[i] IN
    CASE FileKind(path) = "missing" -> [failed |-> path, stats |-> stats]
      [] FileKind(path) = "dir" ->
           CountPaths(paths, i + 1, processDirectory(path, 1, stats))
      [] OTHER ->
           LET ext == ExtensionOf(path)
               isCode == ("." \o ext) \in codeExtensions \/ Len(ext) = 0 \/ ext = path
           IN CountPaths(paths, i + 1,
                         IF isCode THEN AddStats(stats, processFile(path)) ELSE stats)

\* countLinesOfCode: no paths stands for the current directory
countLinesOfCode(paths) ==
  CountPaths(IF Len(paths) = 0 THEN <<".">> ELSE paths, 1, NoStats)

(***************************************************************************)
(* Output lines and errors                                                 *)
(***************************************************************************)
\* one line of output: the format of the Fprintf call and its arguments
Line(format, nums, str) == [format |-> format, nums |-> nums, str |-> str]

\* a FormatLikeWC that prints the words first
FormatLikeWCWordsFirst(lineCount, wordCount_, charCount, path) ==
  IF path = ""
  THEN Line("%8d %7d %7d", <<wordCount_, lineCount, charCount>>, "")
  ELSE Line("%8d %7d %7d %s", <<wordCount_, lineCount, charCount>>, path)

\* FormatLikeWC
FormatLikeWC(lineCount, wordCount_, charCount, path) ==
  IF path = ""
  THEN Line("%8d %7d %7d", <<lineCount, wordCount_, charCount>>, "")
  ELSE Line("%8d %7d %7d %s", <<lineCount, wordCount_, charCount>>, path)

\* a nil error
NoError == [msg |-> "", arg |-> ""]

\* fmt.Errorf(msg, arg, ...)
Errorf(msg, arg) == [msg |-> msg, arg |-> arg]

\* a reader whose bytes have all been read already
NewReaderAtEnd(b) == [data |-> b, off |-> Len(b)]

\* bytes.NewReader(b): a reader at the start of b
NewReader(b) == [data |-> b, off |-> 0]

\* the bytes a reader still yields
Unread(r) == SubSeq(r.data, r.off + 1, Len(r.data))

\* io.ReadAll(r) of the reader over bytes that has been read up to off
ReadAll(bytes, off) == SubSeq(bytes, off + 1, Len(bytes))

\* a switch that tries the words first and the lines last
SingleCountWordFirst(c, data) ==
  CASE c.Word -> countWords(BytesOf(data))
    [] c.Char -> countChars(BytesOf(data))
    [] c.Line -> countLines(BytesOf(data))
    [] OTHER -> 0

\* the switch over cfg.Line, cfg.Char, cfg.Word that picks the one count
SingleCount(c, data) ==
  CASE c.Line -> countLines(BytesOf(data))
    [] c.Char -> countChars(BytesOf(data))
    [] c.Word -> countWords(BytesOf(data))
    [] OTHER -> 0

(***************************************************************************)
(* analyzeWordFrequency                                                    *)
(***************************************************************************)
\* a limit <= 0 taken as "no limit"
EffectiveLimitUnlimited(l) == IF l <= 0 THEN 0 ELSE l

\* if limit <= 0 { limit = 10 }
EffectiveLimit(l) == IF l <= 0 THEN DefaultLimit ELSE l

\* m[k] of a Go map: the zero value for an absent key
MapGet(m, k) == IF k \in DOMAIN m THEN m[k] ELSE 0

\* a map that records the word without counting its occurrences
MapSetOne(m, k) ==
  [w \in DOMAIN m \cup {k} |-> IF w = k THEN 1 ELSE m[w]]

\* wordCounts[word]++
MapIncr(m, k) ==
  [w \in DOMAIN m \cup {k} |-> IF w = k THEN MapGet(m, k) + 1 ELSE m[w]]

\* a sort by count without the alphabetical tiebreaker
lessByCountNoTie(a, b) == a.Count > b.Count

\* less function of the sort by count: count descending, word ascending
lessByCount(a, b) ==
  IF a.Count = b.Count THEN StrLess(a.Word, b.Word) ELSE a.Count > b.Count

\* an alphabetical sort that compares the lengths only
lessByWordLength(a, b) == Len(a.Word) < Len(b.Word)

\* less function of the alphabetical sort
lessByWord(a, b) == StrLess(a.Word, b.Word)

\* a less closure that leaves the order of equal counts to the sort
lessCountOnly(byCount, a, b) ==
  IF byCount THEN a.Count > b.Count ELSE lessByWord(a, b)

\* the less closure handed to sort.Slice
less(byCount, a, b) == IF byCount THEN lessByCount(a, b) ELSE lessByWord(a, b)

\* insert e into the sorted slice s, after the elements that are not greater
RECURSIVE InsertSorted(_, _, _)
InsertSorted(byCount, e, s) ==
  IF s = <<>> THEN <<e>>
  ELSE IF less(byCount, e, Head(s)) THEN <<e>> \o s
  ELSE <<Head(s)>> \o InsertSorted(byCount, e, Tail(s))

\* a stable sort of the slice s by less
RECURSIVE SortSlice(_, _)
SortSlice(byCount, s) ==
  IF s = <<>> THEN <<>>
  ELSE InsertSorted(byCount, s[Len(s)], SortSlice(byCount, SubSeq(s, 1, Len(s) - 1)))

\* sort.Slice(frequencies, less): the sort is not stable, so elements of
\* which neither is less than the other may come out in any order; these
\* are the results of a stable sort of the arrangements of the slice (of the
\* slice and its reverse when it is longer than MaxTokens)
SortOutcomes(byCount, s) ==
  LET n == Len(s)
  IN IF n <= MaxTokens
     THEN {SortSlice(byCount, [i \in 1 .. n |-> s[p[i]]]) : p \in Arrangements(n)}
     ELSE {SortSlice(byCount, s), SortSlice(byCount, [i \in 1 .. n |-> s[n + 1 - i]])}

\* the keys of a set in ascending order
RECURSIVE KeySeq(_)
KeySeq(K) ==
  IF K = {} THEN <<>>
  ELSE LET k == CHOOSE x \in K : \A y \in K \ {x} : StrLess(x, y)
       IN <<k>> \o KeySeq(K \ {k})

\* the slices that "for word, count := range wordCounts" can build: the
\* iteration order of a map is unspecified
RangeOrders(m) ==
  LET ks == KeySeq(DOMAIN m)
      n == Len(ks)
  IN {[i \in 1 .. n |-> [Word |-> ks[p[i]], Count |-> m[ks[p[i]]]]] :
        p \in Arrangements(n)}

\* frequencies[:limit] when limit is positive and less than the length
ApplyLimit(s, lim) ==
  IF lim > 0 /\ lim < Len(s) THEN SubSeq(s, 1, lim) ELSE s

\* the words joined by single spaces
RECURSIVE JoinWords(_)
JoinWords(ws) ==
  IF ws = <<>> THEN ""
  ELSE IF Len(ws) = 1 THEN ws[1]
  ELSE ws[1] \o " " \o JoinWords(Tail(ws))

\* a new bufio.Scanner: no buffer yet
NewScanner == [data |-> "", start |-> 0, end |-> 0, cap |-> 0, err |-> ""]

\* whatlanggo.Detect has not been called
NoDetect == [called |-> FALSE, text |-> "", tag |-> "", name |-> ""]

\* no call of processReaderForLanguage under way
LangIdle ==
  /\ src = ""
  /\ rpos = 0
  /\ buf = ""
  /\ dbuf = ""
  /\ sc = NewScanner
  /\ sample = ""
  /\ wordCount = 0
  /\ lang = [tag |-> "", name |-> ""]
  /\ info = NoDetect
  /\ lpc = "idle"

\* no call of processFile on its own
FileIdle ==
  pf = [ext |-> "", lines |-> <<>>, pos |-> 0, stats |-> NoStats, multi |-> FALSE,
        prev |-> [stats |-> NoStats, multi |-> FALSE], pc |-> "idle"]

\* no counting function called on its own
CountIdle ==
  /\ input = <<>>
  /\ counted = [lines |-> -1, words |-> -1, chars |-> -1]
  /\ cpc = {}

\* no process: analyzeWordFrequency is called by itself
ProgIdle ==
  /\ args = <<>>
  /\ cfg = NewDefaultConfig
  /\ stdin = ""
  /\ out = <<>>
  /\ err = NoError
  /\ pc = "none"
  /\ pathIdx = 0
  /\ totals = [lines |-> 0, words |-> 0, chars |-> 0]

FreqInit ==
  /\ ProgIdle
  /\ LangIdle
  /\ CountIdle
  /\ FileIdle
  /\ text \in Texts
  /\ sortByCount \in BOOLEAN
  /\ limitArg \in Limits
  /\ limit = limitArg
  /\ scanPos = 1
  /\ wordCounts = [w \in {} |-> 0]
  /\ frequencies = <<>>
  /\ fpc = "start"
  /\ round = 1
  /\ firstText = text
  /\ firstReport = <<>>

\* if limit <= 0 { limit = 10 }, scanner and map are created
FreqEnter ==
  /\ fpc = "start"
  /\ limit' = EffectiveLimit(limit)
  /\ fpc' = "scan"
  /\ UNCHANGED <<text, sortByCount, limitArg, scanPos, wordCounts,
                 frequencies, round, firstText, firstReport>>
  /\ UNCHANGED <<progVars, langVars>>
  /\ UNCHANGED <<countVars, fileVars>>

\* the next word of the text fills the largest buffer of the scanner: Scan
\* returns false and scanner.Err() is ErrTooLong
TokenTooLong(t, pos) ==
  LET b == SkipSpaces(t, pos)
  IN b <= Len(t) /\ WordEnd(t, b) - b >= MaxScanTokenSize

\* one iteration of "for scanner.Scan()" that counts the word
FreqScanCount ==
  /\ fpc = "scan"
  /\ ~TokenTooLong(text, scanPos)
  /\ LET b == SkipSpaces(text, scanPos)
         e == WordEnd(text, b)
         word == Normalize(SubSeq(text, b, e - 1))
     IN /\ b <= Len(text)
        /\ word # ""
        /\ wordCounts' = MapIncr(wordCounts, word)
        /\ scanPos' = e
  /\ UNCHANGED <<text, sortByCount, limitArg, limit, frequencies, fpc,
                 round, firstText, firstReport>>
  /\ UNCHANGED <<progVars, langVars>>
  /\ UNCHANGED <<countVars, fileVars>>

\* one iteration of "for scanner.Scan()" that skips an empty word
FreqScanSkip ==
  /\ fpc = "scan"
  /\ ~TokenTooLong(text, scanPos)
  /\ LET b == SkipSpaces(text, scanPos)
         e == WordEnd(text, b)
         word == Normalize(SubSeq(text, b, e - 1))
     IN /\ b <= Len(text)
        /\ word = ""
        /\ scanPos' = e
  /\ UNCHANGED <<text, sortByCount, limitArg, limit, wordCounts, frequencies,
                 fpc, round, firstText, firstReport>>
  /\ UNCHANGED <<progVars, langVars>>
  /\ UNCHANGED <<countVars, fileVars>>

\* scanner.Scan() returns false; the map is converted to a slice
FreqCollect ==
  /\ fpc = "scan"
  /\ ~ReadFails
  /\ SkipSpaces(text, scanPos) > Len(text)
  /\ frequencies' \in RangeOrders(wordCounts)
  /\ scanPos' = Len(text) + 1
  /\ fpc' = "sort"
  /\ UNCHANGED <<text, sortByCount, limitArg, limit, wordCounts, round,
                 firstText, firstReport>>
  /\ UNCHANGED <<progVars, langVars>>
  /\ UNCHANGED <<countVars, fileVars>>

\* sort.Slice
FreqSort ==
  /\ fpc = "sort"
  /\ frequencies' \in SortOutcomes(sortByCount, frequencies)
  /\ fpc' = "limit"
  /\ UNCHANGED <<text, sortByCount, limitArg, limit, scanPos, wordCounts,
                 round, firstText, firstReport>>
  /\ UNCHANGED <<progVars, langVars>>
  /\ UNCHANGED <<countVars, fileVars>>

\* the limit is applied and the slice returned
FreqLimit ==
  /\ fpc = "limit"
  /\ frequencies' = ApplyLimit(frequencies, limit)
  /\ fpc' = "done"
  /\ UNCHANGED <<text, sortByCount, limitArg, limit, scanPos, wordCounts,
                 round, firstText, firstReport>>
  /\ UNCHANGED <<progVars, langVars>>
  /\ UNCHANGED <<countVars, fileVars>>

\* a second call with the same sortByCount and limit on a text that holds
\* the same words in another order
FreqReorder ==
  /\ fpc = "done"
  /\ round = 1
  /\ LET ws == WordsFrom(text, 1)
     IN \E p \in Arrangements(Len(ws)) :
          text' = JoinWords([i \in 1 .. Len(ws) |-> ws[p[i]]])
  /\ firstReport' = frequencies
  /\ round' = 2
  /\ limit' = limitArg
  /\ scanPos' = 1
  /\ wordCounts' = [w \in {} |-> 0]
  /\ frequencies' = <<>>
  /\ fpc' = "start"
  /\ UNCHANGED <<sortByCount, limitArg, firstText>>
  /\ UNCHANGED <<progVars, langVars>>
  /\ UNCHANGED <<countVars, fileVars>>

FreqNext ==
  \/ FreqEnter
  \/ FreqScanCount
  \/ FreqScanSkip
  \/ FreqCollect
  \/ FreqSort
  \/ FreqLimit
  \/ FreqReorder

SpecFreq == FreqInit /\ [][FreqNext]_vars

(***************************************************************************)
(* detectLanguage and processReaderForLanguage                             *)
(***************************************************************************)
\* bufio.ScanWords on the unread bytes of the scanner: the bytes to advance
\* over and the token, if there is one
ScanWords(data, atEOF) ==
  LET b == SkipSpaces(data, 1)
      e == WordEnd(data, b)
  IN IF b <= Len(data) /\ e <= Len(data)
     THEN [advance |-> e, token |-> SubSeq(data, b, e - 1), has |-> TRUE]
     ELSE IF atEOF /\ b <= Len(data)
     THEN [advance |-> Len(data), token |-> SubSeq(data, b, Len(data)), has |-> TRUE]
     ELSE [advance |-> b - 1, token |-> "", has |-> FALSE]

\* what the split function makes of the scanner's buffer; it is not called
\* on an empty buffer before the end of the input
Split(s) ==
  IF s.end > s.start \/ s.err # ""
  THEN ScanWords(s.data, s.err # "")
  ELSE [advance |-> 0, token |-> "", has |-> FALSE]

\* the scanner after it advanced over n bytes
Advance(s, n) ==
  [s EXCEPT !.data = SubSeq(s.data, n + 1, Len(s.data)), !.start = s.start + n]

\* the results of the external language identification: ISO 639-1 code and
\* English name; the empty code is an unknown language
DelegateResults ==
  {[tag |-> "", name |-> ""], [tag |-> "en", name |-> "English"],
   [tag |-> "es", name |-> "Spanish"], [tag |-> "pt", name |-> "Portuguese"],
   [tag |-> "zh", name |-> "Mandarin"], [tag |-> "fr", name |-> "French"]}

\* a presentation without the case of Chinese
PresentWithoutChinese(result) ==
  CASE result.tag = "" -> [tag |-> "und", name |-> "Unknown"]
    [] result.tag = "en" -> [tag |-> "en-US", name |-> "English (US)"]
    [] result.tag = "es" -> [tag |-> "es-ES", name |-> "Spanish (Spain)"]
    [] result.tag = "pt" -> [tag |-> "pt-BR", name |-> "Portuguese (Brazil)"]
    [] OTHER -> result

\* the regional variants detectLanguage substitutes
Present(result) ==
  CASE result.tag = "" -> [tag |-> "und", name |-> "Unknown"]
    [] result.tag = "en" -> [tag |-> "en-US", name |-> "English (US)"]
    [] result.tag = "es" -> [tag |-> "es-ES", name |-> "Spanish (Spain)"]
    [] result.tag = "pt" -> [tag |-> "pt-BR", name |-> "Portuguese (Brazil)"]
    [] result.tag = "zh" -> [tag |-> "zh-CN", name |-> "Chinese (Simplified)"]
    [] OTHER -> result

\* a loop body that writes no separator
WriteSampleUnseparated(builder, count, token) == builder \o token

\* the loop body of detectLanguage: a space before every token but the first
WriteSample(builder, count, token) ==
  IF count > 0 THEN builder \o " " \o token ELSE builder \o token

\* a scanner whose error is never looked at
ScanFailedIgnored(s) == FALSE

\* scanner.Err() != nil: Err returns nil for io.EOF
ScanFailed(s) == s.err \notin {"", "EOF"}

\* a test for no words that never succeeds
NoWordsNever(count) == FALSE

\* if wordCount == 0
NoWords(count) == count = 0

\* a tee that writes what it read twice
TeeWriteTwice(w, p) == w \o p \o p

\* io.TeeReader: the bytes p read from r are written to the buffer w
TeeWrite(w, p) == w \o p

\* scanner.Scan() returns a token and wordCount < maxWords: the loop body
LangScanWord ==
  /\ lpc = "scan"
  /\ Split(sc).has
  /\ wordCount < maxWords
  /\ sample' = WriteSample(sample, wordCount, Split(sc).token)
  /\ wordCount' = wordCount + 1
  /\ sc' = Advance(sc, Split(sc).advance)
  /\ UNCHANGED <<src, rpos, buf, dbuf, lang, info, lpc>>
  /\ UNCHANGED <<progVars, freqVars>>
  /\ UNCHANGED <<countVars, fileVars>>

\* scanner.Scan() returns a token and wordCount has reached maxWords: the
\* loop ends, the token is dropped
LangScanStop ==
  /\ lpc = "scan"
  /\ Split(sc).has
  /\ wordCount >= maxWords
  /\ sc' = Advance(sc, Split(sc).advance)
  /\ lpc' = "detect"
  /\ UNCHANGED <<src, rpos, buf, dbuf, sample, wordCount, lang, info>>
  /\ UNCHANGED <<progVars, freqVars>>
  /\ UNCHANGED <<countVars, fileVars>>

\* scanner.Scan() has no token in its buffer and has not seen the end of the
\* input: it makes room and reads from the tee of detectLanguage, which reads
\* from the tee of processReaderForLanguage, which reads from r; both tees
\* write what they read to their buffers
LangScanRead ==
  /\ lpc = "scan"
  /\ ~Split(sc).has
  /\ sc.err = ""
  /\ LET s1 == Advance(sc, Split(sc).advance)
         shift == s1.start > 0 /\ (s1.end = s1.cap \/ s1.start > s1.cap \div 2)
         s2 == IF shift THEN [s1 EXCEPT !.end = s1.end - s1.start, !.start = 0]
               ELSE s1
         full == s2.end = s2.cap
         tooLong == full /\ s2.cap >= MaxScanTokenSize
         newSize == IF s2.cap * 2 = 0 THEN startBufSize ELSE s2.cap * 2
         s3 == IF full
               THEN [s2 EXCEPT !.cap = IF newSize < MaxScanTokenSize THEN newSize
                                       ELSE MaxScanTokenSize,
                               !.end = s2.end - s2.start, !.start = 0]
               ELSE s2
         room == s3.cap - s3.end
         left == Len(src) - rpos
         n == IF room < left THEN room ELSE left
         chunk == SubSeq(src, rpos + 1, rpos + n)
     IN IF tooLong
        THEN /\ sc' = [s2 EXCEPT !.err = "bufio.Scanner: token too long"]
             /\ lpc' = "detect"
             /\ UNCHANGED <<rpos, buf, dbuf>>
        ELSE IF ReadFails
        THEN /\ sc' = [s3 EXCEPT !.err = ReadError]
             /\ UNCHANGED <<rpos, buf, dbuf, lpc>>
        ELSE IF left = 0
        THEN /\ sc' = [s3 EXCEPT !.err = "EOF"]
             /\ UNCHANGED <<rpos, buf, dbuf, lpc>>
        ELSE /\ sc' = [s3 EXCEPT !.data = s3.data \o chunk, !.end = s3.end + n]
             /\ rpos' = rpos + n
             /\ buf' = TeeWrite(buf, chunk)
             /\ dbuf' = TeeWrite(dbuf, chunk)
             /\ lpc' = lpc
  /\ UNCHANGED <<src, sample, wordCount, lang, info>>
  /\ UNCHANGED <<progVars, freqVars>>
  /\ UNCHANGED <<countVars, fileVars>>

\* scanner.Scan() has no token and the input has ended: it returns false
LangScanEnd ==
  /\ lpc = "scan"
  /\ ~Split(sc).has
  /\ sc.err # ""
  /\ sc' = [sc EXCEPT !.data = "", !.start = 0, !.end = 0]
  /\ lpc' = "detect"
  /\ UNCHANGED <<src, rpos, buf, dbuf, sample, wordCount, lang, info>>
  /\ UNCHANGED <<progVars, freqVars>>
  /\ UNCHANGED <<countVars, fileVars>>

\* the rest of detectLanguage: a scanner error is returned, no word gives
\* "und", otherwise the sample is identified and the result presented
LangDetect ==
  /\ lpc = "detect"
  /\ IF ScanFailed(sc)
     THEN /\ err' = Errorf("failed to detect language: %w",
                           "error reading text: " \o sc.err)
          /\ pc' = "done"
          /\ lpc' = "idle"
          /\ UNCHANGED <<lang, info>>
     ELSE /\ IF NoWords(wordCount)
             THEN /\ lang' = [tag |-> "und", name |-> "Unknown"]
                  /\ UNCHANGED info
             ELSE \E result \in DelegateResults :
                    /\ info' = [called |-> TRUE, text |-> sample,
                                tag |-> result.tag, name |-> result.name]
                    /\ lang' = Present(result)
          /\ lpc' = "count"
          /\ UNCHANGED <<err, pc>>
  /\ UNCHANGED <<src, rpos, buf, dbuf, sc, sample, wordCount>>
  /\ UNCHANGED <<args, cfg, stdin, out, pathIdx, totals>>
  /\ UNCHANGED freqVars
  /\ UNCHANGED <<countVars, fileVars>>

\* the second pass of processReaderForLanguage: the count over its buffer,
\* the Language line and the Count line
LangCount ==
  /\ lpc = "count"
  /\ LET needsCount == cfg.Line \/ cfg.Char \/ cfg.Word
         langLine == Line("Language: %s", <<>>,
                          IF cfg.ShowLanguageName THEN lang.name ELSE lang.tag)
         countLine == Line("Count: %d", <<SingleCount(cfg, buf)>>, "")
     IN out' = IF needsCount THEN out \o <<langLine, countLine>>
               ELSE Append(out, langLine)
  /\ lpc' = "returned"
  /\ UNCHANGED <<src, rpos, buf, dbuf, sc, sample, wordCount, lang, info>>
  /\ UNCHANGED <<args, cfg, stdin, err, pc, pathIdx, totals>>
  /\ UNCHANGED freqVars
  /\ UNCHANGED <<countVars, fileVars>>

(***************************************************************************)
(* main, ParseFlags and Run                                                *)
(***************************************************************************)
\* no call of analyzeWordFrequency under way
FreqIdle ==
  /\ text = ""
  /\ sortByCount = FALSE
  /\ limitArg = 0
  /\ limit = 0
  /\ scanPos = 1
  /\ wordCounts = [w \in {} |-> 0]
  /\ frequencies = <<>>
  /\ fpc = "idle"
  /\ round = 0
  /\ firstText = ""
  /\ firstReport = <<>>

\* the process starts: NewDefaultConfig, arguments and standard input given
\* Run reads cfg.Input only when no path is given (and not with --loc)
ReadsStdin(a) ==
  ~WantsHelp(a) /\ Len(ParsedConfig(NewDefaultConfig, a).Paths) = 0

Init ==
  /\ args \in ArgLists
  /\ stdin \in IF ReadsStdin(args) THEN Stdins ELSE {""}
  /\ cfg = NewDefaultConfig
  /\ out = <<>>
  /\ err = NoError
  /\ pc = "parse"
  /\ pathIdx = 0
  /\ totals = [lines |-> 0, words |-> 0, chars |-> 0]
  /\ LangIdle
  /\ FreqIdle
  /\ CountIdle
  /\ FileIdle

\* ParseFlags(cfg): the usage text and os.Exit(0) on a help flag, the Config
\* of the arguments otherwise
ParseFlags ==
  /\ pc = "parse"
  /\ IF WantsHelp(args)
     THEN pc' = "exit" /\ UNCHANGED cfg
     ELSE pc' = "run" /\ cfg' = ParsedConfig(cfg, args)
  /\ UNCHANGED <<args, stdin, out, err, pathIdx, totals>>
  /\ UNCHANGED <<langVars, freqVars>>
  /\ UNCHANGED <<countVars, fileVars>>

\* Run with cfg.LOC: countLinesOfCode prints the lines of code
RunLOC ==
  /\ pc = "run"
  /\ cfg.LOC
  /\ LET r == countLinesOfCode(cfg.Paths)
     IN IF r.failed # ""
        THEN /\ err' = Errorf("failed to get file info for %s: %w", r.failed)
             /\ UNCHANGED out
        ELSE /\ out' = Append(out, Line("%d", <<r.stats.Code>>, ""))
             /\ UNCHANGED err
  /\ pc' = "done"
  /\ UNCHANGED <<args, cfg, stdin, pathIdx, totals>>
  /\ UNCHANGED <<langVars, freqVars>>
  /\ UNCHANGED <<countVars, fileVars>>

\* Run reaches the language detection: LOC takes precedence
LanguageSelected == ~cfg.LOC /\ cfg.DetectLanguage

\* a Run that tries the frequency analysis before the language detection
FrequencySelectedFirst == ~cfg.LOC /\ cfg.FrequencyAnalysis

\* Run reaches the frequency analysis: LOC and language detection take
\* precedence
FrequencySelected == ~cfg.LOC /\ ~cfg.DetectLanguage /\ cfg.FrequencyAnalysis

\* Run reaches the standard counting
CountingSelected == ~cfg.LOC /\ ~cfg.DetectLanguage /\ ~cfg.FrequencyAnalysis

\* Run with cfg.DetectLanguage: the next iteration of the loop over the paths
\* up to the call of processReaderForLanguage (processFileForLanguage opens
\* the file and prints its name when there are several), standard input when
\* there are no paths, or the return from Run
RunLanguage ==
  /\ pc = "run"
  /\ LanguageSelected
  /\ lpc \in {"idle", "returned"}
  /\ LET finished == IF Len(cfg.Paths) = 0 THEN lpc = "returned"
                     ELSE pathIdx + 1 > Len(cfg.Paths)
         path == IF Len(cfg.Paths) = 0 THEN "" ELSE cfg.Paths[pathIdx + 1]
     IN IF finished
        THEN /\ pc' = "done"
             /\ UNCHANGED <<out, err, pathIdx, langVars>>
        ELSE IF path # "" /\ FileKind(path) = "missing"
        THEN /\ err' = Errorf("failed to open file %s: %w", path)
             /\ pc' = "done"
             /\ UNCHANGED <<out, pathIdx, langVars>>
        ELSE /\ out' = IF Len(cfg.Paths) > 1 THEN Append(out, Line("%s:", <<>>, path))
                       ELSE out
             /\ src' = IF path = "" THEN stdin ELSE FileBytes(path)
             /\ rpos' = 0
             /\ buf' = ""
             /\ dbuf' = ""
             /\ sc' = NewScanner
             /\ sample' = ""
             /\ wordCount' = 0
             /\ info' = NoDetect
             /\ lpc' = "scan"
             /\ pathIdx' = pathIdx + 1
             /\ UNCHANGED <<err, pc, lang>>
  /\ UNCHANGED <<args, cfg, stdin, totals>>
  /\ UNCHANGED freqVars
  /\ UNCHANGED <<countVars, fileVars>>

\* Run with cfg.FrequencyAnalysis: the next iteration of the loop over the
\* paths up to the call of analyzeWordFrequency (processFileForFrequency
\* opens the file and prints its name when there are several), standard input
\* when there are no paths, or the return from Run
RunFrequency ==
  /\ pc = "run"
  /\ FrequencySelected
  /\ fpc \in {"idle", "returned"}
  /\ LET finished == IF Len(cfg.Paths) = 0 THEN fpc = "returned"
                     ELSE pathIdx + 1 > Len(cfg.Paths)
         path == IF Len(cfg.Paths) = 0 THEN "" ELSE cfg.Paths[pathIdx + 1]
     IN IF finished
        THEN /\ pc' = "done"
             /\ UNCHANGED <<out, err, pathIdx, freqVars>>
        ELSE IF path # "" /\ FileKind(path) = "missing"
        THEN /\ err' = Errorf("failed to open file %s: %w", path)
             /\ pc' = "done"
             /\ UNCHANGED <<out, pathIdx, freqVars>>
        ELSE /\ out' = IF Len(cfg.Paths) > 1 THEN Append(out, Line("%s:", <<>>, path))
                       ELSE out
             /\ text' = IF path = "" THEN stdin ELSE FileBytes(path)
             /\ sortByCount' = cfg.SortByCount
             /\ limitArg' = cfg.FrequencyLimit
             /\ limit' = cfg.FrequencyLimit
             /\ scanPos' = 1
             /\ wordCounts' = [w \in {} |-> 0]
             /\ frequencies' = <<>>
             /\ fpc' = "start"
             /\ pathIdx' = pathIdx + 1
             /\ UNCHANGED <<err, pc, round, firstText, firstReport>>
  /\ UNCHANGED <<args, cfg, stdin, totals>>
  /\ UNCHANGED langVars
  /\ UNCHANGED <<countVars, fileVars>>

\* analyzeWordFrequency on a reader that fails or on a word that is too
\* long: scanner.Err() is returned, processReaderForFrequency wraps it, Run
\* returns it
FreqReadError ==
  /\ fpc = "scan"
  /\ ReadFails \/ TokenTooLong(text, scanPos)
  /\ err' = Errorf("failed to analyze word frequency: %w",
                   IF ReadFails THEN ReadError ELSE "bufio.Scanner: token too long")
  /\ pc' = "done"
  /\ fpc' = "failed"
  /\ UNCHANGED <<text, sortByCount, limitArg, limit, scanPos, wordCounts,
                 frequencies, round, firstText, firstReport>>
  /\ UNCHANGED <<args, cfg, stdin, out, pathIdx, totals>>
  /\ UNCHANGED langVars
  /\ UNCHANGED <<countVars, fileVars>>

\* the longest word of the report
RECURSIVE maxWordLen(_)
maxWordLen(fs) ==
  IF fs = <<>> THEN 0
  ELSE LET m == maxWordLen(Tail(fs))
       IN IF Len(Head(fs).Word) > m THEN Len(Head(fs).Word) ELSE m

\* processReaderForFrequency after analyzeWordFrequency returned: header,
\* separator and one row per entry
FreqPrint ==
  /\ pc = "run"
  /\ fpc = "done"
  /\ LET width == maxWordLen(frequencies)
         header == IF sortByCount
                   THEN Line("Word frequency (sorted by count):", <<>>, "")
                   ELSE Line("Word frequency (sorted alphabetically):", <<>>, "")
         rows == [i \in 1 .. Len(frequencies) |->
                    Line("%-*s  %6d", <<width, frequencies[i].Count>>,
                         frequencies[i].Word)]
     IN out' = out \o <<header, Line("%s  %s", <<width>>, "------")>> \o rows
  /\ fpc' = "returned"
  /\ UNCHANGED <<text, sortByCount, limitArg, limit, scanPos, wordCounts,
                 frequencies, round, firstText, firstReport>>
  /\ UNCHANGED <<args, cfg, stdin, err, pc, pathIdx, totals>>
  /\ UNCHANGED langVars
  /\ UNCHANGED <<countVars, fileVars>>

\* a showTotal that does not look at the number of paths
showTotalAlways(c) == c.Line /\ c.Word /\ c.Char

\* showTotal of Run
showTotal(c) == Len(c.Paths) > 1 /\ c.Line /\ c.Word /\ c.Char

\* Run, standard counting with paths: one iteration of the loop, which calls
\* processFileForCounting
RunCountFile ==
  /\ pc = "run"
  /\ CountingSelected
  /\ Len(cfg.Paths) > 0
  /\ pathIdx + 1 <= Len(cfg.Paths)
  /\ LET path == cfg.Paths[pathIdx + 1]
         fileContents == ReadAll(FileBytes(path), 0)
         lines == countLines(Unread(NewReader(BytesOf(fileContents))))
         words == countWords(Unread(NewReader(BytesOf(fileContents))))
         chars == countChars(Unread(NewReader(BytesOf(fileContents))))
     IN IF FileKind(path) = "missing"
        THEN /\ err' = Errorf("failed to open file %s: %w", path)
             /\ pc' = "done"
             /\ UNCHANGED <<out, pathIdx, totals, src, rpos>>
        ELSE IF FileKind(path) = "dir"
        THEN /\ err' = Errorf("failed to read file %s: %w", path)
             /\ pc' = "done"
             /\ src' = FileBytes(path)
             /\ rpos' = 0
             /\ UNCHANGED <<out, pathIdx, totals>>
        ELSE IF cfg.Line /\ cfg.Word /\ cfg.Char
        THEN /\ out' = Append(out, FormatLikeWC(lines, words, chars, path))
             /\ totals' = IF showTotal(cfg)
                          THEN [lines |-> totals.lines + lines,
                                words |-> totals.words + words,
                                chars |-> totals.chars + chars]
                          ELSE totals
             /\ pathIdx' = pathIdx + 1
             /\ src' = FileBytes(path)
             /\ rpos' = Len(FileBytes(path))
             /\ UNCHANGED <<err, pc>>
        ELSE /\ out' = Append(out, Line("%8d %s", <<SingleCount(cfg, fileContents)>>, path))
             /\ pathIdx' = pathIdx + 1
             /\ src' = FileBytes(path)
             /\ rpos' = Len(FileBytes(path))
             /\ UNCHANGED <<err, pc, totals>>
  /\ UNCHANGED <<args, cfg, stdin>>
  /\ UNCHANGED <<buf, dbuf, sc, sample, wordCount, lang, info, lpc>>
  /\ UNCHANGED freqVars
  /\ UNCHANGED <<countVars, fileVars>>

\* Run, standard counting with paths: after the loop, the total row
RunCountTotal ==
  /\ pc = "run"
  /\ CountingSelected
  /\ Len(cfg.Paths) > 0
  /\ pathIdx + 1 > Len(cfg.Paths)
  /\ out' = IF showTotal(cfg)
            THEN Append(out, FormatLikeWC(totals.lines, totals.words, totals.chars, "total"))
            ELSE out
  /\ pc' = "done"
  /\ UNCHANGED <<args, cfg, stdin, err, pathIdx, totals>>
  /\ UNCHANGED <<langVars, freqVars>>
  /\ UNCHANGED <<countVars, fileVars>>

\* Run, standard counting without paths: standard input is read into memory
\* and counted
RunCountStdin ==
  /\ pc = "run"
  /\ CountingSelected
  /\ Len(cfg.Paths) = 0
  /\ LET inputData == ReadAll(stdin, 0)
     IN out' = IF cfg.Line /\ cfg.Word /\ cfg.Char
               THEN Append(out,
                      FormatLikeWC(countLines(Unread(NewReader(BytesOf(inputData)))),
                                   countWords(Unread(NewReader(BytesOf(inputData)))),
                                   countChars(Unread(NewReader(BytesOf(inputData)))), ""))
               ELSE Append(out, Line("%8d", <<SingleCount(cfg, inputData)>>, ""))
  /\ src' = stdin
  /\ rpos' = Len(stdin)
  /\ pc' = "done"
  /\ UNCHANGED <<args, cfg, stdin, err, pathIdx, totals>>
  /\ UNCHANGED <<buf, dbuf, sc, sample, wordCount, lang, info, lpc>>
  /\ UNCHANGED freqVars
  /\ UNCHANGED <<countVars, fileVars>>

Next ==
  \/ ParseFlags
  \/ RunLOC
  \/ RunLanguage
  \/ LangScanWord
  \/ LangScanStop
  \/ LangScanRead
  \/ LangScanEnd
  \/ LangDetect
  \/ LangCount
  \/ RunFrequency
  \/ FreqReadError
  \/ FreqEnter
  \/ FreqScanCount
  \/ FreqScanSkip
  \/ FreqCollect
  \/ FreqSort
  \/ FreqLimit
  \/ FreqPrint
  \/ RunCountFile
  \/ RunCountTotal
  \/ RunCountStdin

Spec == Init /\ [][Next]_vars

(***************************************************************************)
(* countLines, countWords and countChars called on their own, each on a    *)
(* fresh reader over the same bytes.                                       *)
(***************************************************************************)
\* the characters of the inputs, as UTF-8: a, space, newline, carriage
\* return, vertical tab, e with acute, no-break space, the euro sign, and a
\* byte that is no UTF-8
Units ==
  {<<97>>, <<32>>, <<10>>, <<13>>, <<11>>, <<195, 169>>, <<194, 160>>,
   <<226, 130, 172>>, <<255>>}

\* the inputs of at most n units
RECURSIVE UnitTexts(_)
UnitTexts(n) ==
  IF n = 0 THEN {<<>>}
  ELSE LET S == UnitTexts(n - 1) IN S \cup {s \o u : s \in S, u \in Units}

\* as many bytes "a" as the largest buffer of a scanner holds
LongRun == [i \in 1 .. MaxScanTokenSize |-> 97]

\* inputs with a line or a word that fills the largest buffer, and the
\* three-line inputs with and without a last newline
LongInputs ==
  {LongRun, <<97, 10>> \o LongRun \o <<10, 97, 10>>,
   <<97, 32>> \o LongRun \o <<32, 97>>,
   BytesOf("ab\nc\nd"), BytesOf("ab\nc\nd\n"), BytesOf("a b\tc\fd\r\ne ")}

CountInputs == UnitTexts(MaxUnits) \cup LongInputs

CountInit ==
  /\ ProgIdle
  /\ LangIdle
  /\ FreqIdle
  /\ FileIdle
  /\ input \in CountInputs
  /\ counted = [lines |-> -1, words |-> -1, chars |-> -1]
  /\ cpc = {}

\* countLines(r)
CallCountLines ==
  /\ pc = "none"
  /\ "lines" \notin cpc
  /\ counted' = [counted EXCEPT !.lines = countLines(input)]
  /\ cpc' = cpc \cup {"lines"}
  /\ UNCHANGED <<input, progVars, langVars, freqVars, fileVars>>

\* countWords(r)
CallCountWords ==
  /\ pc = "none"
  /\ "words" \notin cpc
  /\ counted' = [counted EXCEPT !.words = countWords(input)]
  /\ cpc' = cpc \cup {"words"}
  /\ UNCHANGED <<input, progVars, langVars, freqVars, fileVars>>

\* countChars(r)
CallCountChars ==
  /\ pc = "none"
  /\ "chars" \notin cpc
  /\ counted' = [counted EXCEPT !.chars = countChars(input)]
  /\ cpc' = cpc \cup {"chars"}
  /\ UNCHANGED <<input, progVars, langVars, freqVars, fileVars>>

CountNext ==
  \/ CallCountLines
  \/ CallCountWords
  \/ CallCountChars

SpecCount == CountInit /\ [][CountNext]_vars

(***************************************************************************)
(* processFile called by itself on the lines of a file.                    *)
(***************************************************************************)
\* the longest file, in lines
MaxLines == 3

\* the lines tried: empty, blank, code, line comments, a comment that opens,
\* one that closes, one that opens and closes, one that closes and opens, and
\* the three characters that open and close at once
LineVocabulary ==
  {"", " \t", "d", " // c", "# c", "/* a", "b */", " /* e */ f", "*/ /*", "/*/"}

\* the files of at most n lines
RECURSIVE LineLists(_)
LineLists(n) ==
  IF n = 0 THEN {<<>>}
  ELSE LET S == LineLists(n - 1)
       IN S \cup {Append(ls, l) : ls \in S, l \in LineVocabulary}

\* the extensions tried: C-style comments, hash comments, none
Extensions == {"go", "py", "md"}

\* processFile has opened the file and created the scanner
ProcessFileInit ==
  /\ ProgIdle
  /\ LangIdle
  /\ FreqIdle
  /\ CountIdle
  /\ \E ext \in Extensions, lines \in LineLists(MaxLines) :
       pf = [ext |-> ext, lines |-> lines, pos |-> 0, stats |-> NoStats,
             multi |-> FALSE, prev |-> [stats |-> NoStats, multi |-> FALSE],
             pc |-> "scan"]

\* one iteration of "for scanner.Scan()" of processFile
ProcessFileScan ==
  /\ pf.pc = "scan"
  /\ pf.pos < Len(pf.lines)
  /\ LET st == ClassifyLine([stats |-> pf.stats, multi |-> pf.multi], pf.ext,
                            pf.lines[pf.pos + 1])
     IN pf' = [pf EXCEPT !.pos = @ + 1, !.stats = st.stats, !.multi = st.multi,
                         !.prev = [stats |-> pf.stats, multi |-> pf.multi]]
  /\ UNCHANGED <<progVars, langVars, freqVars, countVars>>

\* scanner.Scan() returns false: processFile returns the statistics
ProcessFileReturn ==
  /\ pf.pc = "scan"
  /\ pf.pos = Len(pf.lines)
  /\ pf' = [pf EXCEPT !.pc = "returned"]
  /\ UNCHANGED <<progVars, langVars, freqVars, countVars>>

FileNext ==
  \/ ProcessFileScan
  \/ ProcessFileReturn

SpecLOC == ProcessFileInit /\ [][FileNext]_vars

(***************************************************************************)
(* Properties of analyzeWordFrequency.                                     *)
(***************************************************************************)
Min(a, b) == IF a <= b THEN a ELSE b

\* word a comes before word b in the bytewise lexicographic order: they agree
\* on k characters, and then a ends or has the smaller character
WordBefore(a, b) ==
  \E k \in 0 .. Min(Len(a), Len(b)) :
    /\ SubSeq(a, 1, k) = SubSeq(b, 1, k)
    /\ \/ k = Len(a) /\ k < Len(b)
       \/ k < Len(a) /\ k < Len(b) /\ Ord(At(a, k + 1)) < Ord(At(b, k + 1))

\* entry a comes strictly before entry b in the order of the report
EntryBefore(a, b) ==
  IF sortByCount
  THEN a.Count > b.Count \/ (a.Count = b.Count /\ WordBefore(a.Word, b.Word))
  ELSE WordBefore(a.Word, b.Word)

\* C7: the report is sorted under a strict total order: by count descending
\* with ties broken by ascending word when sortByCount, by ascending word
\* otherwise; every adjacent pair is strictly ordered.
C7_ReportStrictlySorted ==
  fpc = "done" =>
    \A i \in 1 .. Len(frequencies) - 1 :
      EntryBefore(frequencies[i], frequencies[i + 1])

\* a report by count with a tie next to a difference in count
C7_Witness ==
  /\ fpc = "done"
  /\ sortByCount
  /\ Len(frequencies) >= 3
  /\ frequencies[1].Count > frequencies[2].Count
  /\ frequencies[2].Count = frequencies[3].Count

\* the entries of the word-to-count map
MapEntries == {[Word |-> w, Count |-> wordCounts[w]] : w \in DOMAIN wordCounts}

ReportEntries == {frequencies[i] : i \in 1 .. Len(frequencies)}

\* C8: a limit <= 0 stands for 10, and the report holds exactly the first
\* min(L, D) entries of the sorted sequence of all D entries: its length is
\* min(L, D), its entries are distinct entries of the map in sorted order, and
\* every entry left out comes after every entry of the report.
C8_LimitTruncates ==
  fpc = "done" =>
    LET L == IF limitArg <= 0 THEN 10 ELSE limitArg
        D == Cardinality(DOMAIN wordCounts)
    IN /\ Len(frequencies) = Min(L, D)
       /\ Len(frequencies) <= L
       /\ ReportEntries \subseteq MapEntries
       /\ \A i, j \in 1 .. Len(frequencies) :
            i < j => EntryBefore(frequencies[i], frequencies[j])
       /\ \A e \in MapEntries \ ReportEntries :
            \A i \in 1 .. Len(frequencies) : EntryBefore(frequencies[i], e)

\* a limit <= 0 cuts more than ten words down to ten, at a tie in count
C8_Witness ==
  /\ fpc = "done"
  /\ limitArg <= 0
  /\ Cardinality(DOMAIN wordCounts) > 10
  /\ Len(frequencies) = 10
  /\ \E e \in MapEntries \ ReportEntries : e.Count = frequencies[10].Count

\* the tokens of t as pairs of first and last position: the maximal runs of
\* characters that are not white space
TokenSpans(t) ==
  LET Firsts == {i \in 1 .. Len(t) :
                   ~isSpace(At(t, i)) /\ (i = 1 \/ isSpace(At(t, i - 1)))}
      Lasts == {j \in 1 .. Len(t) :
                  ~isSpace(At(t, j)) /\ (j = Len(t) \/ isSpace(At(t, j + 1)))}
  IN {sp \in Firsts \X Lasts :
        sp[1] <= sp[2] /\ \A k \in sp[1] .. sp[2] : ~isSpace(At(t, k))}

\* the punctuation the normalisation trims
Punctuation ==
  {".", ",", ";", ":", "!", "?", "\"", "'", "(", ")", "[", "]", "{", "}"}

\* the lower-case form of a character: an upper-case letter is replaced by
\* the letter 32 byte values above it
Lowered(c) ==
  IF Ord(c) >= 65 /\ Ord(c) <= 90
  THEN CHOOSE d \in {"a", "b", "c"} : Ord(d) = Ord(c) + 32
  ELSE c

\* n is the normalised form of token tok: tok, lower-cased, is n between a
\* run of punctuation on each side, and n neither starts nor ends with
\* punctuation
IsNormalFormOf(n, tok) ==
  \E i \in 1 .. Len(tok) + 1 :
    LET j == i + Len(n) - 1
    IN /\ j <= Len(tok)
       /\ \A k \in 1 .. Len(n) : At(n, k) = Lowered(At(tok, i + k - 1))
       /\ \A k \in 1 .. i - 1 : Lowered(At(tok, k)) \in Punctuation
       /\ \A k \in j + 1 .. Len(tok) : Lowered(At(tok, k)) \in Punctuation
       /\ n # "" => At(n, 1) \notin Punctuation /\ At(n, Len(n)) \notin Punctuation

\* the substrings of a token with its upper-case letters replaced
Pieces(tok) ==
  LET low == ToLower(tok)
  IN {SubSeq(low, i, j) : i \in 1 .. Len(tok) + 1, j \in 0 .. Len(tok)}

\* the normal form of a token
FormOf(tok) == CHOOSE n \in Pieces(tok) : IsNormalFormOf(n, tok)

\* the tokens of t, by span, that have the normal form n
SpansWithForm(t, n) ==
  {sp \in TokenSpans(t) : FormOf(SubSeq(t, sp[1], sp[2])) = n}

\* the non-empty normal forms of the tokens of t
FormsOf(t) == {FormOf(SubSeq(t, sp[1], sp[2])) : sp \in TokenSpans(t)} \ {""}

\* C9: every token is lower-cased and trimmed of the punctuation at both
\* ends; the tokens with the same non-empty normal form are counted in one
\* entry, and tokens whose normal form is empty are counted in none.
C9_NormalizedCounts ==
  fpc = "limit" =>
    /\ DOMAIN wordCounts = FormsOf(text)
    /\ \A n \in DOMAIN wordCounts :
         wordCounts[n] = Cardinality(SpansWithForm(text, n))
    /\ ReportEntries = MapEntries
    /\ Len(frequencies) = Cardinality(MapEntries)

\* two tokens that differ in case and punctuation share an entry, and a token
\* of punctuation only is dropped
C9_Witness ==
  /\ fpc = "done"
  /\ \E a, b \in TokenSpans(text) :
       /\ SubSeq(text, a[1], a[2]) # SubSeq(text, b[1], b[2])
       /\ \E n \in DOMAIN wordCounts :
            {a, b} \subseteq SpansWithForm(text, n)
  /\ \E sp \in TokenSpans(text) : FormOf(SubSeq(text, sp[1], sp[2])) = ""

\* C10: a text whose tokens are a permutation of the tokens of another text
\* gives the same report for the same sortByCount and limit.
C10_OrderIndependent ==
  (fpc = "done" /\ round = 2) => frequencies = firstReport

\* the second call ran on tokens in another order and reports several words
C10_Witness ==
  /\ fpc = "done"
  /\ round = 2
  /\ WordsFrom(text, 1) # WordsFrom(firstText, 1)
  /\ Len(frequencies) >= 2
  /\ \E i \in 1 .. Len(frequencies) : frequencies[i].Count >= 2

(***************************************************************************)
(* Properties of ParseFlags and Run.                                       *)
(***************************************************************************)
\* the line last written to the output
LastLine == out[Len(out)]

\* C1: in language-detect mode with a counting modifier the printed Count is
\* the count over the entire input, also beyond what the sampling pass read.
C1_CountCoversInput ==
  (lpc = "returned" /\ (cfg.Line \/ cfg.Char \/ cfg.Word)) =>
    LastLine = Line("Count: %d", <<SingleCount(cfg, src)>>, "")

\* the value that follows "--limit" at index i is malformed: an argument
\* that is neither a flag nor a number
BadLimitValue(a, i) ==
  i + 1 <= Len(a) /\ ~HasPrefix(a[i + 1], "-") /\ ~Sscanf(a[i + 1]).ok

\* the value that follows "--limit" at index i is missing
NoLimitValue(a, i) == i + 1 > Len(a) \/ HasPrefix(a[i + 1], "-")

\* the arguments from index i on without the "--limit" flags whose value is
\* missing or malformed, and without the malformed values
RECURSIVE WithoutBadLimit(_, _)
WithoutBadLimit(a, i) ==
  IF i > Len(a) THEN <<>>
  ELSE IF a[i] = "--limit" /\ BadLimitValue(a, i) THEN WithoutBadLimit(a, i + 2)
  ELSE IF a[i] = "--limit" /\ NoLimitValue(a, i) THEN WithoutBadLimit(a, i + 1)
  ELSE IF a[i] = "--limit" THEN <<a[i], a[i + 1]>> \o WithoutBadLimit(a, i + 2)
  ELSE <<a[i]>> \o WithoutBadLimit(a, i + 1)

\* C2: a "--limit" whose value is missing or non-numeric is recovered
\* silently: the Config is the one of the arguments without the flag and its
\* malformed value, and Run fails on no path that is not among its paths.
C2_BadLimitRecovered ==
  pc \in {"run", "done"} =>
    LET clean == ParsedConfig(NewDefaultConfig, WithoutBadLimit(args, 1))
    IN /\ cfg = clean
       /\ err.msg = "failed to open file %s: %w" =>
            \E i \in 1 .. Len(clean.Paths) : clean.Paths[i] = err.arg

\* the primary mode of a Config, by precedence
ModeOf(c) ==
  IF c.LOC THEN "loc"
  ELSE IF c.DetectLanguage THEN "language"
  ELSE IF c.FrequencyAnalysis THEN "frequency"
  ELSE IF c.Line /\ c.Word /\ c.Char THEN "triple"
  ELSE "single"

\* the formats of the lines each mode prints
FormatsOf(mode) ==
  CASE mode = "loc" -> {"%d"}
    [] mode = "language" -> {"%s:", "Language: %s", "Count: %d"}
    [] mode = "frequency" ->
         {"%s:", "Word frequency (sorted by count):",
          "Word frequency (sorted alphabetically):", "%s  %s", "%-*s  %6d"}
    [] mode = "triple" -> {"%8d %7d %7d", "%8d %7d %7d %s"}
    [] mode = "single" -> {"%8d", "%8d %s"}

\* C3: Run executes one primary mode, chosen by the precedence LOC, language
\* detection, frequency analysis, single count, triple count: every line of
\* output is one of that mode, no other mode is entered, and a Run that
\* returns without error has printed.
C3_OneModeByPrecedence ==
  pc \in {"run", "done"} =>
    /\ \A i \in 1 .. Len(out) : out[i].format \in FormatsOf(ModeOf(cfg))
    /\ ModeOf(cfg) # "language" => lpc = "idle"
    /\ ModeOf(cfg) # "frequency" => fpc = "idle"
    /\ (pc = "done" /\ err = NoError) => Len(out) >= 1

\* LOC, language detection and frequency analysis are all set and only the
\* total of the lines of code is printed
C3_Witness ==
  /\ pc = "done"
  /\ cfg.LOC /\ cfg.DetectLanguage /\ cfg.FrequencyAnalysis
  /\ Len(out) = 1
  /\ out[1].format = "%d"

\* the number of lines of a text: one per newline and one for a rest
LineCountOf(t) ==
  Cardinality({k \in 1 .. Len(t) : At(t, k) = "\n"})
  + (IF t # "" /\ At(t, Len(t)) # "\n" THEN 1 ELSE 0)

\* scanner.Err() after the loop of a counting function over the bytes r
ScanError(split, r) == ScanLoop(split, r, NewByteScanner(r), 0).err

\* every line and word of the text fits the buffer of a scanner
Scannable(t) ==
  \A split \in {"ScanLines", "ScanWords", "ScanRunes"} : ScanError(split, BytesOf(t)) = ""

C5_DefaultWordOnly ==
  (pc \in {"run", "done"} /\ args = <<>>) =>
    /\ cfg.Word
    /\ ~cfg.Line /\ ~cfg.Char /\ ~cfg.LOC
    /\ ~cfg.DetectLanguage /\ ~cfg.FrequencyAnalysis
    /\ pc = "done" =>
         out = <<Line("%8d", <<Cardinality(TokenSpans(stdin))>>, "")>>

\* C6: in single-count mode the output for standard input and for one named
\* file is the count alone; with several paths each line is count and path.
C6_SingleFileBareCount ==
  (pc = "done" /\ err = NoError /\ ModeOf(cfg) = "single") =>
    IF Len(cfg.Paths) <= 1
    THEN Len(out) = 1 /\ out[1].format = "%8d" /\ out[1].str = ""
    ELSE /\ Len(out) = Len(cfg.Paths)
         /\ \A i \in 1 .. Len(out) :
              out[i].format = "%8d %s" /\ out[i].str = cfg.Paths[i]

(***************************************************************************)
(* Properties of countLines, countWords and countChars.                    *)
(***************************************************************************)
\* the number of newline bytes of b
NewlinesOf(b) == Cardinality({k \in 1 .. Len(b) : b[k] = 10})

\* C11: countLines is the number of newline-terminated segments, plus one
\* when the input ends in a non-empty segment without newline; 0 for the
\* empty input.
C11_LinesAreSegments ==
  "lines" \in cpc =>
    counted.lines = NewlinesOf(input)
                    + (IF Len(input) > 0 /\ input[Len(input)] # 10 THEN 1 ELSE 0)

\* space, tab, newline, vertical tab, form feed, carriage return
AsciiSpaces == {32, 9, 10, 11, 12, 13}

\* the positions where a maximal run of bytes that are no AsciiSpaces starts
RunStarts(b) ==
  {k \in 1 .. Len(b) :
     b[k] \notin AsciiSpaces /\ (k = 1 \/ b[k - 1] \in AsciiSpaces)}

\* C12: countWords is the number of maximal runs of characters that are not
\* space, tab, newline, carriage return, form feed or vertical tab; 0 for
\* empty and whitespace-only input.
C12_WordsAreRuns ==
  "words" \in cpc => counted.words = Cardinality(RunStarts(input))

\* the bytes b are well-formed UTF-8: every position is inside the encoding
\* of a code point that DecodeRune accepts, reached from the start
RECURSIVE ValidFrom(_, _)
ValidFrom(b, i) ==
  IF i > Len(b) THEN TRUE
  ELSE \E d \in {DecodeRune(b, i)} :
         d.rune # RuneError /\ \E j \in {i + d.width} : ValidFrom(b, j)

\* the number of code points of well-formed UTF-8: the bytes that are no
\* continuation bytes
CodePointsOf(b) == Cardinality({k \in 1 .. Len(b) : ~IsContinuation(b[k])})

\* C13: countChars of UTF-8 text is its number of code points, not of bytes;
\* 0 for the empty input.
C13_CharsAreCodePoints ==
  ("chars" \in cpc /\ ValidFrom(input, 1)) => counted.chars = CodePointsOf(input)

\* a text with a character of several bytes has been counted
C13_Witness ==
  /\ "chars" \in cpc
  /\ ValidFrom(input, 1)
  /\ counted.chars > 0
  /\ counted.chars < Len(input)

(***************************************************************************)
(* Properties of detectLanguage.                                           *)
(***************************************************************************)
\* detectLanguage has returned a result
Detected == lpc \in {"count", "returned"}

\* C14: the base tags en, es, pt and zh of the identification are presented
\* as en-US, es-ES, pt-BR and zh-CN with their names, every other non-empty
\* tag and its name are returned unchanged, the empty tag gives und, Unknown.
C14_PresentationTable ==
  (Detected /\ info.called) =>
    lang = CASE info.tag = "en" -> [tag |-> "en-US", name |-> "English (US)"]
             [] info.tag = "es" -> [tag |-> "es-ES", name |-> "Spanish (Spain)"]
             [] info.tag = "pt" -> [tag |-> "pt-BR", name |-> "Portuguese (Brazil)"]
             [] info.tag = "zh" -> [tag |-> "zh-CN", name |-> "Chinese (Simplified)"]
             [] info.tag = "" -> [tag |-> "und", name |-> "Unknown"]
             [] OTHER -> [tag |-> info.tag, name |-> info.name]

\* Chinese has been identified and is presented as simplified Chinese
C14_Witness ==
  /\ Detected
  /\ info.called
  /\ info.tag = "zh"
  /\ lang.tag = "zh-CN"

\* C15: for an input of zero tokens detectLanguage returns und, Unknown
\* without error, and the identification is not invoked.
C15_NoTokensUndetermined ==
  (lpc # "idle" /\ TokenSpans(src) = {}) =>
    /\ ~info.called
    /\ err = NoError
    /\ Detected => lang = [tag |-> "und", name |-> "Unknown"]

\* a whitespace-only input has been given the tag und
C15_Witness ==
  /\ lpc = "returned"
  /\ src # ""
  /\ TokenSpans(src) = {}
  /\ lang.tag = "und"

\* the k-th of the tokens S of the text t, given as pairs of positions
KthToken(t, S, k) ==
  LET sp == CHOOSE p \in S : Cardinality({q \in S : q[1] <= p[1]}) = k
  IN SubSeq(t, sp[1], sp[2])

\* C16: the sample passed to the identification holds the first min(n, 1000)
\* tokens of the input, in order and unchanged, joined by exactly one space.
C16_SampleIsPrefix ==
  info.called =>
    \E S \in {TokenSpans(src)}, T \in {TokenSpans(info.text)} :
       /\ Cardinality(T) = Min(Cardinality(S), maxWords)
       /\ \A k \in 1 .. Cardinality(T) :
            KthToken(info.text, T, k) = KthToken(src, S, k)
       /\ \A i \in 1 .. Len(info.text) :
            isSpace(At(info.text, i)) =>
              /\ At(info.text, i) = " "
              /\ 1 < i /\ i < Len(info.text)
              /\ ~isSpace(At(info.text, i + 1))

\* an input of more than maxWords tokens, with newlines and punctuation, has
\* been sampled
C16_Witness ==
  /\ info.called
  /\ Cardinality(TokenSpans(src)) > maxWords
  /\ Cardinality(TokenSpans(info.text)) = maxWords
  /\ \E i \in 1 .. Len(src) : At(src, i) = "."

\* the number of lines of the output written with one of the formats
LinesWith(formats) ==
  Cardinality({i \in 1 .. Len(out) : out[i].format \in formats})

\* the number of sources processReaderForLanguage has returned from without
\* error when Run ends
SourcesDone == IF Len(cfg.Paths) = 0 THEN 0 ELSE pathIdx - 1

\* C17: when reading fails while the sample is built, detectLanguage returns
\* an error that wraps the read error, the identification is not invoked, and
\* neither a Language line nor a Count line is printed for that input.
C17_ReadErrorNoDetection ==
  (ModeOf(cfg) = "language" /\ lpc # "scan" /\ sc.err \notin {"", "EOF"}) =>
    /\ ~info.called
    /\ pc = "done" =>
         /\ err = Errorf("failed to detect language: %w",
                         "error reading text: " \o sc.err)
         /\ LinesWith({"Language: %s"}) = SourcesDone
         /\ LinesWith({"Count: %d"}) <= SourcesDone

\* the language of a file has been printed and the read of a second source
\* has failed
C17_Witness ==
  /\ pc = "done"
  /\ ModeOf(cfg) = "language"
  /\ sc.err = ReadError
  /\ LinesWith({"Language: %s"}) = 1

(***************************************************************************)
(* Properties of the loops of Run over the paths.                          *)
(***************************************************************************)
\* the index of the first path that cannot be opened or read, 0 if none
FirstFailing(paths) ==
  LET bad == {i \in 1 .. Len(paths) : FileKind(paths[i]) # "file"}
  IN IF bad = {} THEN 0 ELSE CHOOSE i \in bad : \A j \in bad : i <= j

\* the lines of the output that begin the block of a path or are the row of
\* a path: their positions
PathLines ==
  {i \in 1 .. Len(out) : out[i].format \in {"%s:", "%8d %s", "%8d %7d %7d %s"}}

\* the k-th of a set of positions
KthOf(S, k) == CHOOSE i \in S : Cardinality({j \in S : j <= i}) = k

\* the modes whose output names every path
NamesPaths ==
  IF ModeOf(cfg) \in {"language", "frequency"} THEN Len(cfg.Paths) > 1
  ELSE Len(cfg.Paths) > 0

\* C18: in language, frequency and counting mode the paths are processed in
\* the given order and the first path that fails to open or to read ends the
\* run with an error: the output holds the complete blocks of the paths
\* before it and nothing else, and no total row.
C18_AbortAtFirstFailure ==
  (pc = "done" /\ ModeOf(cfg) # "loc" /\ FirstFailing(cfg.Paths) > 0) =>
    LET k == FirstFailing(cfg.Paths)
    IN /\ err # NoError
       /\ NamesPaths =>
            /\ Cardinality(PathLines) = k - 1
            /\ \A i \in 1 .. k - 1 : out[KthOf(PathLines, i)].str = cfg.Paths[i]
       /\ k = 1 => out = <<>>
       /\ out # <<>> => LastLine.format # "%s:"

\* the sum of the j-th numbers of the first n lines of the output
RECURSIVE SumOfRows(_, _)
SumOfRows(n, j) == IF n = 0 THEN 0 ELSE out[n].nums[j] + SumOfRows(n - 1, j)

\* C19: in triple-count mode over named files a total row is printed exactly
\* when there is more than one path, after the rows of the files, and each of
\* its fields is the sum of that field over the rows of the files.
C19_TotalRow ==
  (pc = "done" /\ err = NoError /\ ModeOf(cfg) = "triple" /\ Len(cfg.Paths) > 0) =>
    LET n == Len(cfg.Paths)
    IN /\ \A i \in 1 .. n :
            i <= Len(out) /\ out[i].format = "%8d %7d %7d %s"
            /\ out[i].str = cfg.Paths[i]
       /\ IF n > 1
          THEN /\ Len(out) = n + 1
               /\ LastLine.format = "%8d %7d %7d %s"
               /\ LastLine.str = "total"
               /\ \A j \in 1 .. 3 : LastLine.nums[j] = SumOfRows(n, j)
          ELSE Len(out) = n

\* two files have been counted and the total row differs from both rows
C19_Witness ==
  /\ pc = "done"
  /\ err = NoError
  /\ ModeOf(cfg) = "triple"
  /\ Len(cfg.Paths) = 2
  /\ Len(out) = 3
  /\ out[3].str = "total"
  /\ \A j \in 1 .. 3 : out[3].nums[j] > out[1].nums[j] /\ out[3].nums[j] > out[2].nums[j]

(***************************************************************************)
(* Properties of countLinesOfCode.                                         *)
(***************************************************************************)
\* the per-language summaries the code-statistics tool of TestMockLOC prints
MockSummaries == <<[Name |-> "Go", Code |-> 100, Comment |-> 20, Blank |-> 10]>>

\* the sum of the code lines of summaries
RECURSIVE CodeTotal(_)
CodeTotal(summaries) ==
  IF summaries = <<>> THEN 0
  ELSE Head(summaries).Code + CodeTotal(Tail(summaries))

\* C20: LOC mode prints one number, the sum of the code lines over the
\* per-language summaries the external code-statistics tool returns: 100 for
\* the one summary with Code = 100.
C20_TotalOfDelegate ==
  (pc = "done" /\ ModeOf(cfg) = "loc" /\ err = NoError) =>
    out = <<Line("%d", <<CodeTotal(MockSummaries)>>, "")>>

\* the three failures of the external code-statistics tool
DelegateErrors ==
  {"scc is not installed", "failed to run scc", "failed to parse scc output"}

\* C21: Run with LOC set and no code-statistics tool on the execution path
\* returns the error "scc is not installed" and prints no total.
C21_DelegateNotInstalled ==
  (pc = "done" /\ ModeOf(cfg) = "loc" /\ cfg.Paths = <<".">>) =>
    /\ err.msg \in DelegateErrors
    /\ out = <<>>

(***************************************************************************)
(* Further properties of ParseFlags.                                       *)
(***************************************************************************)
\* the positional arguments from index i on, in command-line order: the
\* arguments that are neither flags nor the number that follows "--limit"
RECURSIVE Positionals(_, _)
Positionals(a, i) ==
  IF i > Len(a) THEN <<>>
  ELSE IF a[i] = "--limit" /\ i + 1 <= Len(a) /\ Sscanf(a[i + 1]).ok
  THEN Positionals(a, i + 2)
  ELSE IF HasPrefix(a[i], "-") THEN Positionals(a, i + 1)
  ELSE <<a[i]>> \o Positionals(a, i + 1)

\* some "--limit" of the arguments is followed by a malformed value
HasBadLimit(a) == \E i \in 1 .. Len(a) : a[i] = "--limit" /\ BadLimitValue(a, i)

\* C22: the positional arguments, when there are any, become Paths in
\* command-line order; without any, "--loc" yields Paths = <<".">> and
\* "--lang" or "--lang-name" alone leave Paths empty, so that the language
\* detection reads standard input.
C22_PathDefaulting ==
  (pc \in {"run", "done"} /\ ~HasBadLimit(args)) =>
    LET given == Positionals(args, 1)
        has(flag) == \E i \in 1 .. Len(args) : args[i] = flag
    IN /\ given # <<>> => cfg.Paths = given
       /\ (given = <<>> /\ has("--loc")) => cfg.Paths = <<".">>
       /\ (given = <<>> /\ ~has("--loc") /\ (has("--lang") \/ has("--lang-name")))
            => /\ cfg.Paths = <<>>
               /\ pc = "done" => src = stdin

\* "--lang-name" without a path: the detection has read standard input
C22_Witness ==
  /\ pc = "done"
  /\ args = <<"--lang-name">>
  /\ cfg.Paths = <<>>
  /\ stdin # ""
  /\ src = stdin
  /\ out # <<>>

\* the permutations of a list of arguments
PermutationsOf(a) ==
  LET n == Len(a)
  IN {[i \in 1 .. n |-> a[p[i]]] :
        p \in {q \in [1 .. n -> 1 .. n] : \A i, j \in 1 .. n : q[i] = q[j] => i = j}}

\* C23: for arguments with neither "--limit" nor a help flag, every
\* permutation of the arguments yields the same mode and modifier flags, and
\* the same Paths when it keeps the positional arguments in their order.
C23_OrderIndependent ==
  (/\ pc = "run" /\ pathIdx = 0 /\ out = <<>> /\ lpc = "idle" /\ fpc = "idle"
   /\ \A i \in 1 .. Len(args) : args[i] # "--limit") =>
    \A b \in PermutationsOf(args) :
      LET other == ParsedConfig(NewDefaultConfig, b)
      IN /\ [other EXCEPT !.Paths = <<>>] = [cfg EXCEPT !.Paths = <<>>]
         /\ Positionals(b, 1) = Positionals(args, 1) => other.Paths = cfg.Paths

\* a path before a flag and a path after it: both are collected
C23_Witness ==
  /\ pc = "run"
  /\ args = <<"f2", "--freq", "f1">>
  /\ cfg.FrequencyAnalysis
  /\ cfg.Paths = <<"f2", "f1">>

EntriesByKey ==
  LET ks == KeySeq(DOMAIN wordCounts)
  IN [i \in 1 .. Len(ks) |-> [Word |-> ks[i], Count |-> wordCounts[ks[i]]]]

\* C25: the map, the sort mode and the limit determine the report: whatever
\* order the range over the map took and whatever the unstable sort made of
\* it, the report is the one obtained from the entries appended in the
\* ascending order of their words.
C25_IterationOrderIrrelevant ==
  fpc = "done" =>
    frequencies = ApplyLimit(SortSlice(sortByCount, EntriesByKey), limit)

\* a report by count of a map with two words of the same count, which the
\* range can yield in more than one order
C25_Witness ==
  /\ fpc = "done"
  /\ sortByCount
  /\ Cardinality(RangeOrders(wordCounts)) > 1
  /\ \E v, w \in DOMAIN wordCounts : v # w /\ wordCounts[v] = wordCounts[w]
  /\ Len(frequencies) >= 2

\* the counting passes that Run makes over standard input
PassesOf(c) ==
  IF c.Line /\ c.Word /\ c.Char THEN {"ScanLines", "ScanWords", "ScanRunes"}
  ELSE IF c.Line THEN {"ScanLines"}
  ELSE IF c.Char THEN {"ScanRunes"}
  ELSE IF c.Word THEN {"ScanWords"}
  ELSE {}

\* C26: when the scanning pass of a count over standard input stops on an
\* error (here: a line or word that fills the scanner's largest buffer), Run
\* returns an error and prints no count for the input.
C26_NoPartialCount ==
  (/\ pc = "done"
   /\ ModeOf(cfg) \in {"triple", "single"}
   /\ Len(cfg.Paths) = 0
   /\ \E split \in PassesOf(cfg) : ScanError(split, BytesOf(stdin)) # "") =>
    /\ err # NoError
    /\ out = <<>>

\* the sum of the counts of a slice of entries
RECURSIVE SumCounts(_)
SumCounts(fs) == IF fs = <<>> THEN 0 ELSE Head(fs).Count + SumCounts(Tail(fs))

\* the tokens of t, by span, whose normal form is not empty
CountedSpans(t) ==
  {sp \in TokenSpans(t) : FormOf(SubSeq(t, sp[1], sp[2])) # ""}

\* C27: before the truncation the entries have pairwise distinct, non-empty,
\* normalised words and counts of at least 1, and the counts add up to the
\* number of tokens with a non-empty normal form; the counts of the truncated
\* report add up to at most that number.
C27_CountsConserved ==
  /\ fpc \in {"sort", "limit"} =>
       /\ \A i, j \in 1 .. Len(frequencies) :
            i # j => frequencies[i].Word # frequencies[j].Word
       /\ \A i \in 1 .. Len(frequencies) :
            /\ frequencies[i].Count >= 1
            /\ frequencies[i].Word # ""
            /\ IsNormalFormOf(frequencies[i].Word, frequencies[i].Word)
       /\ SumCounts(frequencies) = Cardinality(CountedSpans(text))
  /\ fpc = "done" => SumCounts(frequencies) <= Cardinality(CountedSpans(text))

\* a truncated report of a text with a repeated word and a token without a
\* normal form: the counts add up to less than the number of counted tokens
C27_Witness ==
  /\ fpc = "done"
  /\ \E i \in 1 .. Len(frequencies) : frequencies[i].Count >= 2
  /\ Cardinality(CountedSpans(text)) < Cardinality(TokenSpans(text))
  /\ Len(frequencies) < Cardinality(DOMAIN wordCounts)
  /\ SumCounts(frequencies) < Cardinality(CountedSpans(text))

(***************************************************************************)
(* Further properties of processReaderForLanguage.                         *)
(***************************************************************************)
\* C28: in processReaderForLanguage the buffer of the tee holds, at every
\* point, the bytes read from the input so far, in their order: a prefix of
\* the input; when the count runs over it and the input has at most maxWords
\* tokens, it is the complete input.
C28_TeeBufferIsPrefix ==
  (pc \in {"run", "done"} /\ ModeOf(cfg) = "language") =>
    /\ rpos <= Len(src)
    /\ buf = SubSeq(src, 1, rpos)
    /\ (lpc \in {"count", "returned"} /\ Cardinality(TokenSpans(src)) <= maxWords)
         => buf = src

\* the count has run over the buffer of an input of one to maxWords tokens
\* that fills the first buffer of the scanner
C28_Witness ==
  /\ lpc = "returned"
  /\ cfg.Line \/ cfg.Char \/ cfg.Word
  /\ Cardinality(TokenSpans(src)) \in 1 .. maxWords
  /\ Len(src) >= startBufSize
  /\ buf = src

\* exactly two of Line, Char and Word are set
TwoKinds(c) ==
  \/ c.Line /\ c.Char /\ ~c.Word
  \/ c.Line /\ ~c.Char /\ c.Word
  \/ ~c.Line /\ c.Char /\ c.Word

\* the split function of the count chosen in the order Line, Char, Word
KindOf(c) ==
  IF c.Line THEN "ScanLines" ELSE IF c.Char THEN "ScanRunes" ELSE "ScanWords"

\* the count of the bytes of a text under a split function
CountOf(split, t) == ScanLoop(split, BytesOf(t), NewByteScanner(BytesOf(t)), 0).count

\* C29: with exactly two of Line, Char and Word set, one count is printed per
\* input, and it is the line count if Line is set and the character count
\* otherwise, for standard input, for each named file and after each language
\* detection alike; no line of the output holds a second count.
C29_OneCountByOrder ==
  (pc \in {"run", "done"} /\ TwoKinds(cfg) /\ ModeOf(cfg) \in {"single", "language"}) =>
    /\ \A i \in 1 .. Len(out) : Len(out[i].nums) <= 1
    /\ (ModeOf(cfg) = "language" /\ lpc = "returned") =>
         /\ Len(out) >= 2
         /\ out[Len(out) - 1].format = "Language: %s"
         /\ LastLine = Line("Count: %d", <<CountOf(KindOf(cfg), buf)>>, "")
    /\ (ModeOf(cfg) = "single" /\ Len(cfg.Paths) = 0 /\ pc = "done") =>
         out = <<Line("%8d", <<CountOf(KindOf(cfg), stdin)>>, "")>>
    /\ (ModeOf(cfg) = "single" /\ Len(cfg.Paths) > 0) =>
         /\ Len(out) = pathIdx
         /\ \A i \in 1 .. pathIdx :
              out[i] = Line("%8d %s", <<CountOf(KindOf(cfg), FileBytes(cfg.Paths[i]))>>,
                            cfg.Paths[i])

\* Char and Word are set and two files have been counted: each row holds the
\* number of characters, which is not the number of words
C29_Witness ==
  /\ pc = "done"
  /\ ModeOf(cfg) = "single"
  /\ cfg.Char /\ cfg.Word /\ ~cfg.Line
  /\ Len(cfg.Paths) = 2
  /\ Len(out) = 2
  /\ \A i \in 1 .. 2 :
       /\ out[i].nums[1] = CountOf("ScanRunes", FileBytes(cfg.Paths[i]))
       /\ out[i].nums[1] # CountOf("ScanWords", FileBytes(cfg.Paths[i]))

(***************************************************************************)
(* Properties of processFile.                                              *)
(***************************************************************************)
\* the line processFile classified last
LastScanned == pf.lines[pf.pos]

\* a line of white space only
IsBlankLine(line) == \A k \in 1 .. Len(line) : isSpace(At(line, k))

\* the first characters of the line that are not white space are "/*"
OpensComment(line) ==
  \E k \in 1 .. Len(line) - 1 :
    /\ SubSeq(line, k, k + 1) = "/*"
    /\ \A j \in 1 .. k - 1 : isSpace(At(line, j))

\* the line holds "*/"
HoldsClose(line) == \E k \in 1 .. Len(line) - 1 : SubSeq(line, k, k + 1) = "*/"

\* the extensions of the files with C-style comments
CStyle == {"go", "c", "cpp", "java", "js", "ts", "cs", "swift", "kt"}

\* C30: every scanned line adds 1 to Total and to exactly one of Blank,
\* Comments and Code, so that Total = Code + Comments + Blank after any number
\* of lines; in a C-style file the multi-line comment state is entered only by
\* a non-blank line that starts with "/*" and holds no "*/", and it is left by
\* the first later non-blank line that holds "*/" and by no other line.
C30_LineClassification ==
  pf.pos >= 1 =>
    LET d(f) == pf.stats[f] - pf.prev.stats[f]
    IN /\ pf.stats.Total = pf.pos
       /\ pf.stats.Total = pf.stats.Code + pf.stats.Comments + pf.stats.Blank
       /\ d("Total") = 1
       /\ {d("Code"), d("Comments"), d("Blank")} = {0, 1}
       /\ d("Code") + d("Comments") + d("Blank") = 1
       /\ d("Blank") = 1 <=> IsBlankLine(LastScanned)
       /\ pf.ext \in CStyle =>
            /\ (pf.multi /\ ~pf.prev.multi) =>
                 /\ ~IsBlankLine(LastScanned)
                 /\ OpensComment(LastScanned)
                 /\ ~HoldsClose(LastScanned)
            /\ (pf.prev.multi /\ ~IsBlankLine(LastScanned) /\ HoldsClose(LastScanned))
                 => ~pf.multi
            /\ (pf.prev.multi /\ ~pf.multi) =>
                 ~IsBlankLine(LastScanned) /\ HoldsClose(LastScanned)
            /\ pf.prev.multi => d("Code") = 0
       /\ pf.ext \notin CStyle => ~pf.multi

\* a comment of three lines with a blank line inside has just been closed
C30_Witness ==
  /\ pf.ext \in CStyle
  /\ pf.pos = 3
  /\ pf.prev.multi
  /\ ~pf.multi
  /\ pf.stats.Blank = 1
  /\ pf.stats.Comments = 2

====
